---- MODULE Spec2Model ----
(***************************************************************************)
(* The vector index of ext/clusterkit/src/hnsw.rs (HnswIndex) as a state   *)
(* machine.  Each caller thread runs one operation at a time; an operation *)
(* is split exactly where the code takes a mutex, so that every stretch of *)
(* code between two lock acquisitions is one step.                         *)
(***************************************************************************)
EXTENDS Integers, Sequences, FiniteSets, TLC

VARIABLES
    dim,             \* HnswIndex.dim
    space,           \* HnswIndex.space
    random_seed,     \* the seed given to new: <<>> or <<seed>>
    hnsw,            \* the graph: the inserted points [d_id, v], in insertion order
    metadata_store,  \* internal id -> [label, metadata]
    current_id,      \* the id counter
    label_to_id,     \* label -> internal id
    ef_search,       \* the search breadth
    lock,            \* mutex name -> the thread holding it, or Free
    th,              \* thread -> its program counter and locals
    disk,            \* the persisted artifacts: graph blob and sidecar
    callers,         \* the threads that hold a reference to the index
    work,            \* the workload: the sets the callers draw their arguments from
    regs,            \* history: the [label, id] registrations, in order
    pre,             \* history: the index as a lone caller's operation found it
    saved,           \* history: the index as a lone caller's last save found it
    loaded,          \* history: the label table the last load brought back
    umap,            \* the RustUMAP pipeline object: <<>> or <<its fields>>
    model_file,      \* the file save_model writes: <<>> or <<SavedUMAPModel>>
    ucall,           \* the last call on the pipeline or the clustering module
    km               \* the frame of the kmeans call: <<>> or <<its locals>>

vars == <<dim, space, random_seed, hnsw, metadata_store, current_id,
          label_to_id, ef_search, lock, th, disk, callers, work, regs, pre, saved,
          loaded,
          umap, model_file, ucall, km>>

index == <<hnsw, metadata_store, current_id, label_to_id, ef_search>>
pipeline == <<umap, model_file, ucall, km>>
fixed == <<dim, space, random_seed, callers, work, pipeline>>
hist == <<regs, pre, saved, loaded>>

(* ------------------------------ bounds -------------------------------- *)
MaxId == 3
MaxBatch == 2
ConcMaxId == 3
ConcMaxBatch == 2
LiveMaxId == 2
LiveMaxBatch == 1
PersistMaxId == 4
EfMaxId == 1
TornMaxId == 1
HdbMaxSamples == 5
ArgMaxId == 3
ArgMaxBatch == 1
HdbMaxParam == 10

Threads == {"t1", "t2"}
Free == "free"
Dims == {1, 2}
VecPool == {<<0>>, <<1>>, <<0, 1>>}
LabelPool == {"a", "1"}
MetaPool == {"m"}
KPool == {1, 2}
EfPool == {10}
SeedPool == {42}

(* ----------------------------- constants ------------------------------ *)
DefaultK == 10
DefaultEfConstruction == 200
LoadEfSearch == 200
DefaultNComponents == 2
DefaultNNeighbors == 15
DefaultNbGradBatch == 10
DefaultNbSamplingByEdge == 8
FallbackSeed == 42
WeightEpsilonInv == 1000
EmbVals == {0, 2}

(* ------------------------------ helpers ------------------------------- *)
Min(a, b) == IF a <= b THEN a ELSE b
Max(a, b) == IF a >= b THEN a ELSE b
NoMap == [x \in {} |-> 0]

Digit == <<"0", "1", "2", "3", "4", "5", "6", "7", "8", "9">>

\* usize::to_string: the decimal digits of n
RECURSIVE to_string(_)
to_string(n) ==
    IF n < 10 THEN Digit[n + 1]
    ELSE to_string(n \div 10) \o Digit[(n % 10) + 1]

\* DistL2 between two points of equal length (the square; same order)
RECURSIVE DistL2(_, _)
DistL2(a, b) ==
    IF Len(a) = 0 \/ Len(b) = 0 THEN 0
    ELSE (a[1] - b[1]) * (a[1] - b[1]) + DistL2(Tail(a), Tail(b))

\* a parse_vector that does not compare the length with expected_dim
parse_vector_unchecked(array, expected_dim) ==
    [ok |-> TRUE, err |-> "", vec |-> array]

\* parse_vector: Ok exactly when the array has expected_dim elements
parse_vector(array, expected_dim) ==
    IF Len(array) # expected_dim
    THEN [ok |-> FALSE, err |-> "DimensionMismatch", vec |-> <<>>]
    ELSE [ok |-> TRUE, err |-> "", vec |-> array]

\* positions of g ordered by distance to q, nearer first, earlier first on ties
RECURSIVE SortByDistance(_, _, _)
SortByDistance(g, q, S) ==
    IF S = {} THEN <<>>
    ELSE LET m == CHOOSE i \in S : \A j \in S :
                      \/ DistL2(g[i].v, q) < DistL2(g[j].v, q)
                      \/ DistL2(g[i].v, q) = DistL2(g[j].v, q) /\ i <= j
         IN  <<m>> \o SortByDistance(g, q, S \ {m})

\* Hnsw::search(query, knbn, ef_arg): the knbn nearest points found with
\* breadth max(ef_arg, knbn), as [d_id, distance], nearest first
HnswSearch(g, q, k, ef) ==
    LET breadth == Max(ef, k)
        order   == SortByDistance(g, q, 1..Len(g))
        found   == SubSeq(order, 1, Min(breadth, Len(order)))
        last    == Min(Min(k, breadth), Len(found))
    IN  [n \in 1..last |->
            [d_id |-> g[found[n]].d_id, distance |-> DistL2(g[found[n]].v, q)]]

\* Hnsw::insert((&vec, id))
HnswInsert(g, vec, id) == Append(g, [d_id |-> id, v |-> vec])

RECURSIVE HnswInsertAll(_, _)
HnswInsertAll(g, pts) ==
    IF pts = <<>> THEN g
    ELSE HnswInsertAll(HnswInsert(g, pts[1].v, pts[1].d_id), Tail(pts))

\* the orders in which parallel_insert may put pts into the graph
InsertOrders(pts) ==
    {s \in [1..Len(pts) -> 1..Len(pts)] : \A i, j \in 1..Len(pts) : s[i] = s[j] => i = j}

HnswParallelInsert(g, pts) ==
    {HnswInsertAll(g, [n \in 1..Len(pts) |-> pts[s[n]]]) : s \in InsertOrders(pts)}

(* --------------------------- thread records --------------------------- *)
LockNames == {"hnsw", "metadata_store", "current_id", "label_to_id", "ef_search"}

IdleRec ==
    [pc |-> "idle", op |-> "none", vec |-> <<>>, label |-> "", explicit |-> FALSE,
     meta |-> <<>>, id |-> 0, rows |-> <<>>, labels |-> <<>>, parallel |-> FALSE,
     i |-> 0, pts |-> <<>>, ents |-> <<>>, k |-> 0, ef |-> <<>>, nb |-> <<>>,
     out |-> <<>>, ret |-> "", path |-> "", ef_arg |-> <<>>, odd |-> {}]

Snapshot ==
    [dim |-> dim, space |-> space, hnsw |-> hnsw, metadata_store |-> metadata_store,
     current_id |-> current_id, label_to_id |-> label_to_id, ef_search |-> ef_search]

\* the counter increments an operation in flight may still make
Reserve(r) ==
    CASE r.op = "add_item" /\ r.pc = "ai_gen" -> 2
      [] r.op = "add_item" /\ r.pc \in {"ai_lock_labels", "ai_crit"} -> 1
      [] r.op = "add_batch" /\ r.pc \in {"ab_gen", "ab_lock_labels", "ab_crit"} ->
             (Len(r.rows) - r.i + 1) * (IF r.labels = <<>> THEN 2 ELSE 1)
      [] OTHER -> 0

RECURSIVE SumReserve(_)
SumReserve(S) ==
    IF S = {} THEN 0
    ELSE LET t == CHOOSE x \in S : TRUE IN Reserve(th[t]) + SumReserve(S \ {t})

Room(n) == current_id + SumReserve(Threads) + n <= work.cap

Idle(t) == t \in callers /\ th[t].pc = "idle"
At(t, op, pc) == th[t].op = op /\ th[t].pc = pc
Set(t, r) == th' = [th EXCEPT ![t] = r]
Called(t) == pre' = IF callers = {t} THEN <<Snapshot>> ELSE pre
Acquire(t, n) == lock[n] = Free /\ lock' = [lock EXCEPT ![n] = t]

\* guards that outlive their scope
ReleaseNothing(t) == lock' = lock

\* the guards a thread holds are dropped at the end of their scope
Release(t) == lock' = [n \in LockNames |-> IF lock[n] = t THEN Free ELSE lock[n]]

Opt(S) == {<<>>} \cup {<<x>> : x \in S}

\* the keywords among names that the callers may give a value of another type
\* than the one the operation converts it to
OddKeywords(names) == IF "odd" \in DOMAIN work THEN work.odd \cap names ELSE {}

\* an insert that drops what the map held
MapInsertOnly(map, key, val) == (key :> val)

\* a duplicate check that never finds the label
ContainsKeyNever(map, label) == FALSE

\* label_map.contains_key(&label)
ContainsKey(map, label) == label \in DOMAIN map

\* label_map.insert(label, id)
MapInsert(map, key, val) == (key :> val) @@ map

(* ------------------------------ add_item ------------------------------ *)
\* lines 135-159: parse the vector, take the label and the metadata. A label
\* that is no String is replaced by a generated one (140-145), metadata that
\* parse_metadata refuses by None (156): lab and md are what the conversions
\* leave, odd the keywords whose value they refused
AddItemCall(t) ==
    /\ Idle(t)
    /\ \E array \in work.vecs, lab \in Opt(work.labels), md \in Opt(work.metas),
          odd \in SUBSET OddKeywords({"label", "metadata"}) :
          LET p == parse_vector(array, dim)
              r == [IdleRec EXCEPT !.op = "add_item", !.vec = array, !.meta = md,
                                   !.explicit = (lab # <<>>),
                                   !.label = IF lab # <<>> THEN lab[1] ELSE "",
                                   !.odd = odd]
          IN  /\ "label" \in odd => lab = <<>>
              /\ "metadata" \in odd => md = <<>>
              /\ p.ok => Room(IF lab = <<>> THEN 2 ELSE 1)
              /\ IF ~p.ok
                 THEN Set(t, [r EXCEPT !.pc = "done", !.ret = p.err])
                 ELSE IF lab # <<>>
                 THEN Set(t, [r EXCEPT !.pc = "ai_lock_labels"])
                 ELSE Set(t, [r EXCEPT !.pc = "ai_gen"])
    /\ Called(t)
    /\ UNCHANGED <<index, fixed, lock, disk, regs, saved, loaded>>

\* lines 148-151: the label generated from the counter
AddItemGenLabel(t) ==
    /\ At(t, "add_item", "ai_gen")
    /\ lock["current_id"] = Free
    /\ Set(t, [th[t] EXCEPT !.pc = "ai_lock_labels", !.label = to_string(current_id)])
    /\ current_id' = current_id + 1
    /\ UNCHANGED <<hnsw, metadata_store, label_to_id, ef_search, fixed, lock, disk, hist>>

\* line 163
AddItemLockLabels(t) ==
    /\ At(t, "add_item", "ai_lock_labels")
    /\ Acquire(t, "label_to_id")
    /\ Set(t, [th[t] EXCEPT !.pc = "ai_crit"])
    /\ UNCHANGED <<index, fixed, disk, hist>>

\* lines 164-177: the duplicate check and the id, under both locks
AddItemRegister(t) ==
    /\ At(t, "add_item", "ai_crit")
    /\ lock["current_id"] = Free
    /\ Release(t)
    /\ IF ContainsKey(label_to_id, th[t].label)
       THEN /\ Set(t, [th[t] EXCEPT !.pc = "done", !.ret = "DuplicateLabel"])
            /\ UNCHANGED <<index, regs>>
       ELSE /\ Set(t, [th[t] EXCEPT !.pc = "ai_meta", !.id = current_id])
            /\ label_to_id' = MapInsert(label_to_id, th[t].label, current_id)
            /\ current_id' = current_id + 1
            /\ regs' = Append(regs, [label |-> th[t].label, id |-> current_id])
            /\ UNCHANGED <<hnsw, metadata_store, ef_search>>
    /\ UNCHANGED <<fixed, disk, pre, saved, loaded>>

\* an insert that goes on to the graph without storing its metadata record
AddItemStoreMetaSkip(t) ==
    /\ At(t, "add_item", "ai_meta")
    /\ lock["metadata_store"] = Free
    /\ Set(t, [th[t] EXCEPT !.pc = "ai_hnsw"])
    /\ UNCHANGED <<index, fixed, lock, disk, hist>>

\* lines 180-186
AddItemStoreMeta(t) ==
    /\ At(t, "add_item", "ai_meta")
    /\ lock["metadata_store"] = Free
    /\ metadata_store' = MapInsert(metadata_store, th[t].id,
                                   [label |-> th[t].label, metadata |-> th[t].meta])
    /\ Set(t, [th[t] EXCEPT !.pc = "ai_hnsw"])
    /\ UNCHANGED <<hnsw, current_id, label_to_id, ef_search, fixed, lock, disk, hist>>

\* lines 189-194
AddItemInsert(t) ==
    /\ At(t, "add_item", "ai_hnsw")
    /\ lock["hnsw"] = Free
    /\ hnsw' = HnswInsert(hnsw, th[t].vec, th[t].id)
    /\ Set(t, [th[t] EXCEPT !.pc = "done", !.ret = "ok"])
    /\ UNCHANGED <<metadata_store, current_id, label_to_id, ef_search, fixed, lock,
                   disk, hist>>

(* ------------------------------ add_batch ----------------------------- *)
SeqsUpTo(S, n) == UNION {[1..m -> S] : m \in 0..n}

\* lines 215-227: the head of the loop body for row r.i, up to the first lock
BatchRow(r) ==
    IF r.i > Len(r.rows) THEN [r EXCEPT !.pc = "ab_meta"]
    ELSE LET p == parse_vector(r.rows[r.i], dim)
         IN  IF ~p.ok THEN [r EXCEPT !.pc = "done", !.ret = p.err]
             ELSE IF r.labels = <<>> THEN [r EXCEPT !.pc = "ab_gen", !.vec = p.vec]
             ELSE IF r.i > Len(r.labels[1])
             THEN [r EXCEPT !.pc = "done", !.ret = "TypeError"]
             ELSE [r EXCEPT !.pc = "ab_lock_labels", !.vec = p.vec,
                            !.label = r.labels[1][r.i]]

\* lines 198-217; labels that are no array are taken as no labels (206)
AddBatchCall(t) ==
    /\ Idle(t)
    /\ \E vectors \in SeqsUpTo(work.vecs, work.batch),
          labs \in Opt(SeqsUpTo(work.labels, work.batch)),
          par \in BOOLEAN,
          odd \in SUBSET OddKeywords({"labels"}) :
          /\ "labels" \in odd => labs = <<>>
          /\ Room(Len(vectors) * (IF labs = <<>> THEN 2 ELSE 1))
          /\ Set(t, BatchRow([IdleRec EXCEPT !.op = "add_batch", !.rows = vectors,
                                             !.labels = labs, !.parallel = par,
                                             !.explicit = (labs # <<>>), !.i = 1,
                                             !.odd = odd]))
    /\ Called(t)
    /\ UNCHANGED <<index, fixed, lock, disk, regs, saved, loaded>>

\* lines 223-226
AddBatchGenLabel(t) ==
    /\ At(t, "add_batch", "ab_gen")
    /\ lock["current_id"] = Free
    /\ Set(t, [th[t] EXCEPT !.pc = "ab_lock_labels", !.label = to_string(current_id)])
    /\ current_id' = current_id + 1
    /\ UNCHANGED <<hnsw, metadata_store, label_to_id, ef_search, fixed, lock, disk, hist>>

\* line 231
AddBatchLockLabels(t) ==
    /\ At(t, "add_batch", "ab_lock_labels")
    /\ Acquire(t, "label_to_id")
    /\ Set(t, [th[t] EXCEPT !.pc = "ab_crit"])
    /\ UNCHANGED <<index, fixed, disk, hist>>

\* lines 232-251, then the head of the next row
AddBatchRegister(t) ==
    /\ At(t, "add_batch", "ab_crit")
    /\ lock["current_id"] = Free
    /\ Release(t)
    /\ IF ContainsKey(label_to_id, th[t].label)
       THEN /\ Set(t, [th[t] EXCEPT !.pc = "done", !.ret = "DuplicateLabel"])
            /\ UNCHANGED <<index, regs>>
       ELSE /\ Set(t, BatchRow([th[t] EXCEPT
                    !.pts = Append(@, [d_id |-> current_id, v |-> th[t].vec]),
                    !.ents = Append(@, [id |-> current_id, label |-> th[t].label]),
                    !.i = @ + 1]))
            /\ label_to_id' = MapInsert(label_to_id, th[t].label, current_id)
            /\ current_id' = current_id + 1
            /\ regs' = Append(regs, [label |-> th[t].label, id |-> current_id])
            /\ UNCHANGED <<hnsw, metadata_store, ef_search>>
    /\ UNCHANGED <<fixed, disk, pre, saved, loaded>>

RECURSIVE StoreAll(_, _)
StoreAll(store, ents) ==
    IF ents = <<>> THEN store
    ELSE StoreAll(MapInsert(store, ents[1].id,
                            [label |-> ents[1].label, metadata |-> <<>>]), Tail(ents))

\* lines 255-260
AddBatchStoreMeta(t) ==
    /\ At(t, "add_batch", "ab_meta")
    /\ lock["metadata_store"] = Free
    /\ metadata_store' = StoreAll(metadata_store, th[t].ents)
    /\ Set(t, [th[t] EXCEPT !.pc = "ab_hnsw"])
    /\ UNCHANGED <<hnsw, current_id, label_to_id, ef_search, fixed, lock, disk, hist>>

\* line 265: which insertion path the batch takes
UseParallel(parallel, seed) == parallel

\* lines 263-275
AddBatchInsert(t) ==
    /\ At(t, "add_batch", "ab_hnsw")
    /\ lock["hnsw"] = Free
    /\ IF UseParallel(th[t].parallel, random_seed)
       THEN /\ hnsw' \in HnswParallelInsert(hnsw, th[t].pts)
            /\ Set(t, [th[t] EXCEPT !.pc = "done", !.ret = "ok", !.path = "parallel"])
       ELSE /\ hnsw' = HnswInsertAll(hnsw, th[t].pts)
            /\ Set(t, [th[t] EXCEPT !.pc = "done", !.ret = "ok", !.path = "serial"])
    /\ UNCHANGED <<metadata_store, current_id, label_to_id, ef_search, fixed, lock,
                   disk, hist>>

(* ------------------------- search, size, set_ef ----------------------- *)

\* lines 279-301, up to the first lock; an ef that is no usize is passed
\* over by the if let of line 297
SearchCall(t) ==
    /\ Idle(t)
    /\ \E query \in work.vecs, kk \in Opt(work.ks), ef \in Opt(work.efs),
          odd \in SUBSET OddKeywords({"ef"}) :
          LET p == parse_vector(query, dim)
              r == [IdleRec EXCEPT !.op = "search", !.vec = query, !.ef = ef,
                                   !.k = IF kk = <<>> THEN DefaultK ELSE kk[1],
                                   !.odd = odd]
          IN  /\ "ef" \in odd => ef = <<>>
              /\ IF ~p.ok THEN Set(t, [r EXCEPT !.pc = "done", !.ret = p.err])
                 ELSE IF ef # <<>> THEN Set(t, [r EXCEPT !.pc = "sr_set_ef"])
                 ELSE Set(t, [r EXCEPT !.pc = "sr_lock_hnsw"])
    /\ Called(t)
    /\ UNCHANGED <<index, fixed, lock, disk, regs, saved, loaded>>

\* lines 334-342
SearchWithMetadataCall(t) ==
    /\ Idle(t)
    /\ \E query \in work.vecs, kk \in Opt(work.ks) :
          LET p == parse_vector(query, dim)
              r == [IdleRec EXCEPT !.op = "search_with_metadata", !.vec = query,
                                   !.k = IF kk = <<>> THEN DefaultK ELSE kk[1]]
          IN  IF ~p.ok THEN Set(t, [r EXCEPT !.pc = "done", !.ret = p.err])
              ELSE Set(t, [r EXCEPT !.pc = "sr_lock_hnsw"])
    /\ Called(t)
    /\ UNCHANGED <<index, fixed, lock, disk, regs, saved, loaded>>

\* lines 296-301
SearchSetEf(t) ==
    /\ At(t, "search", "sr_set_ef")
    /\ lock["ef_search"] = Free
    /\ ef_search' = th[t].ef[1]
    /\ Set(t, [th[t] EXCEPT !.pc = "sr_lock_hnsw"])
    /\ UNCHANGED <<hnsw, metadata_store, current_id, label_to_id, fixed, lock, disk, hist>>

\* lines 305, 346
SearchLockHnsw(t) ==
    /\ th[t].op \in {"search", "search_with_metadata"}
    /\ th[t].pc = "sr_lock_hnsw"
    /\ Acquire(t, "hnsw")
    /\ Set(t, [th[t] EXCEPT !.pc = "sr_graph"])
    /\ UNCHANGED <<index, fixed, disk, hist>>

\* lines 306-308, 347-349
SearchGraph(t) ==
    /\ th[t].op \in {"search", "search_with_metadata"}
    /\ th[t].pc = "sr_graph"
    /\ lock["ef_search"] = Free
    /\ Release(t)
    /\ Set(t, [th[t] EXCEPT !.pc = "sr_meta",
                            !.nb = HnswSearch(hnsw, th[t].vec, th[t].k, ef_search),
                            !.ef_arg = IF th[t].ef # <<>> THEN <<ef_search>> ELSE <<>>])
    /\ UNCHANGED <<index, fixed, disk, hist>>

\* a result assembly that loses the nearest hit
AssembleTail(nb, store) ==
    LET kept == SelectSeq(nb, LAMBDA h : h.d_id \in DOMAIN store)
    IN  [n \in 1..(Len(kept) - 1) |->
            [label |-> store[kept[n + 1].d_id].label, distance |-> kept[n + 1].distance]]

\* lines 316-321: the hits that have a metadata record, as label and distance
Assemble(nb, store) ==
    LET kept == SelectSeq(nb, LAMBDA h : h.d_id \in DOMAIN store)
    IN  [n \in 1..Len(kept) |->
            [label |-> store[kept[n].d_id].label, distance |-> kept[n].distance]]

\* lines 355-371: the same, with the metadata
AssembleWithMetadata(nb, store) ==
    LET kept == SelectSeq(nb, LAMBDA h : h.d_id \in DOMAIN store)
    IN  [n \in 1..Len(kept) |->
            [label |-> store[kept[n].d_id].label, distance |-> kept[n].distance,
             metadata |-> store[kept[n].d_id].metadata]]

\* lines 311-330
SearchAssemble(t) ==
    /\ At(t, "search", "sr_meta")
    /\ lock["metadata_store"] = Free
    /\ Set(t, [th[t] EXCEPT !.pc = "done", !.ret = "ok",
                            !.out = Assemble(th[t].nb, metadata_store)])
    /\ UNCHANGED <<index, fixed, lock, disk, hist>>

\* lines 352-373
SearchWithMetadataAssemble(t) ==
    /\ At(t, "search_with_metadata", "sr_meta")
    /\ lock["metadata_store"] = Free
    /\ Set(t, [th[t] EXCEPT !.pc = "done", !.ret = "ok",
                            !.out = AssembleWithMetadata(th[t].nb, metadata_store)])
    /\ UNCHANGED <<index, fixed, lock, disk, hist>>

\* metadata_store.len()
StoreLen(store) == Cardinality(DOMAIN store)

\* line 377
SizeCall(t) ==
    /\ Idle(t)
    /\ Set(t, [IdleRec EXCEPT !.op = "size", !.pc = "sz"])
    /\ Called(t)
    /\ UNCHANGED <<index, fixed, lock, disk, regs, saved, loaded>>

\* lines 378-379
SizeRead(t) ==
    /\ At(t, "size", "sz")
    /\ lock["metadata_store"] = Free
    /\ Set(t, [th[t] EXCEPT !.pc = "done", !.ret = "ok",
                            !.out = <<StoreLen(metadata_store)>>])
    /\ UNCHANGED <<index, fixed, lock, disk, hist>>


\* line 383
EmptyCall(t) ==
    /\ Idle(t)
    /\ Set(t, [IdleRec EXCEPT !.op = "empty", !.pc = "em"])
    /\ Called(t)
    /\ UNCHANGED <<index, fixed, lock, disk, regs, saved, loaded>>

\* line 384, through size() at lines 378-379
EmptyRead(t) ==
    /\ At(t, "empty", "em")
    /\ lock["metadata_store"] = Free
    /\ Set(t, [th[t] EXCEPT !.pc = "done", !.ret = "ok",
                            !.out = <<StoreLen(metadata_store) = 0>>])
    /\ UNCHANGED <<index, fixed, lock, disk, hist>>

\* line 388
SetEfCall(t) ==
    /\ Idle(t)
    /\ \E e \in work.efs : Set(t, [IdleRec EXCEPT !.op = "set_ef", !.pc = "se", !.ef = <<e>>])
    /\ Called(t)
    /\ UNCHANGED <<index, fixed, lock, disk, regs, saved, loaded>>

\* lines 389-391
SetEfWrite(t) ==
    /\ At(t, "set_ef", "se")
    /\ lock["ef_search"] = Free
    /\ ef_search' = th[t].ef[1]
    /\ Set(t, [th[t] EXCEPT !.pc = "done", !.ret = "ok"])
    /\ UNCHANGED <<hnsw, metadata_store, current_id, label_to_id, fixed, lock, disk, hist>>

(* ---------------------------- config, stats -------------------------- *)
\* DistanceType -> its name, lines 399-403 and 520-524
SpaceName(sp) ==
    CASE sp = "Euclidean" -> "euclidean"
      [] sp = "Cosine" -> "cosine"
      [] sp = "InnerProduct" -> "inner_product"

\* line 395
ConfigCall(t) ==
    /\ Idle(t)
    /\ Set(t, [IdleRec EXCEPT !.op = "config", !.pc = "cf_lock_ef"])
    /\ Called(t)
    /\ UNCHANGED <<index, fixed, lock, disk, regs, saved, loaded>>

\* line 406
ConfigLockEf(t) ==
    /\ At(t, "config", "cf_lock_ef")
    /\ Acquire(t, "ef_search")
    /\ Set(t, [th[t] EXCEPT !.pc = "cf_size"])
    /\ UNCHANGED <<index, fixed, disk, hist>>

\* lines 407-410: size() is called with ef_search still held
ConfigSize(t) ==
    /\ At(t, "config", "cf_size")
    /\ lock["metadata_store"] = Free
    /\ Release(t)
    /\ Set(t, [th[t] EXCEPT !.pc = "done", !.ret = "ok",
                  !.out = <<[dim |-> dim, space |-> SpaceName(space), ef |-> ef_search,
                             size |-> StoreLen(metadata_store)]>>])
    /\ UNCHANGED <<index, fixed, disk, hist>>

\* line 414
StatsCall(t) ==
    /\ Idle(t)
    /\ Set(t, [IdleRec EXCEPT !.op = "stats", !.pc = "st_size"])
    /\ Called(t)
    /\ UNCHANGED <<index, fixed, lock, disk, regs, saved, loaded>>

\* lines 417-418
StatsSize(t) ==
    /\ At(t, "stats", "st_size")
    /\ lock["metadata_store"] = Free
    /\ Set(t, [th[t] EXCEPT !.pc = "st_ef", !.id = StoreLen(metadata_store)])
    /\ UNCHANGED <<index, fixed, lock, disk, hist>>

\* lines 420-425
StatsEf(t) ==
    /\ At(t, "stats", "st_ef")
    /\ lock["ef_search"] = Free
    /\ Set(t, [th[t] EXCEPT !.pc = "done", !.ret = "ok",
                  !.out = <<[size |-> th[t].id, dim |-> dim, ef_search |-> ef_search]>>])
    /\ UNCHANGED <<index, fixed, lock, disk, hist>>

(* ------------------------------ save, load ---------------------------- *)
\* lines 493-499
SaveCall(t) ==
    /\ Idle(t)
    /\ Set(t, [IdleRec EXCEPT !.op = "save", !.pc = "sv_graph"])
    /\ Called(t)
    /\ saved' = IF callers = {t} THEN <<Snapshot>> ELSE <<>>
    /\ UNCHANGED <<index, fixed, lock, disk, regs, loaded>>

\* lines 502-506: the graph blob
SaveGraph(t) ==
    /\ At(t, "save", "sv_graph")
    /\ lock["hnsw"] = Free
    /\ disk' = [disk EXCEPT !.graph = <<hnsw>>]
    /\ Set(t, [th[t] EXCEPT !.pc = "sv_lock_meta"])
    /\ UNCHANGED <<index, fixed, lock, hist>>

\* line 511
SaveLockMeta(t) ==
    /\ At(t, "save", "sv_lock_meta")
    /\ Acquire(t, "metadata_store")
    /\ Set(t, [th[t] EXCEPT !.pc = "sv_lock_labels"])
    /\ UNCHANGED <<index, fixed, disk, hist>>

\* line 512
SaveLockLabels(t) ==
    /\ At(t, "save", "sv_lock_labels")
    /\ Acquire(t, "label_to_id")
    /\ Set(t, [th[t] EXCEPT !.pc = "sv_sidecar"])
    /\ UNCHANGED <<index, fixed, disk, hist>>

\* a sidecar written without the metadata table
SidecarNoMetadata ==
    [metadata_store |-> NoMap, label_to_id |-> label_to_id,
     current_id |-> current_id, dim |-> dim, space |-> SpaceName(space)]

\* a sidecar written without the id counter
SidecarZeroCounter ==
    [metadata_store |-> metadata_store, label_to_id |-> label_to_id,
     current_id |-> 0, dim |-> dim, space |-> SpaceName(space)]

\* lines 515-525: the sidecar tuple
Sidecar ==
    [metadata_store |-> metadata_store, label_to_id |-> label_to_id,
     current_id |-> current_id, dim |-> dim, space |-> SpaceName(space)]

\* lines 513-534
SaveSidecar(t) ==
    /\ At(t, "save", "sv_sidecar")
    /\ lock["current_id"] = Free
    /\ Release(t)
    /\ disk' = [disk EXCEPT !.sidecar = <<Sidecar>>]
    /\ Set(t, [th[t] EXCEPT !.pc = "done", !.ret = "ok"])
    /\ UNCHANGED <<index, fixed, hist>>

\* lines 471-476
ParseSpace(name) ==
    CASE name = "euclidean" -> <<"Euclidean">>
      [] name = "cosine" -> <<"Cosine">>
      [] name = "inner_product" -> <<"InnerProduct">>
      [] OTHER -> <<>>

\* the registrations a loaded label table stands for, by id
RECURSIVE ByIdOrder(_, _)
ByIdOrder(map, S) ==
    IF S = {} THEN <<>>
    ELSE LET l == CHOOSE x \in S : \A y \in S : map[x] <= map[y]
         IN  <<[label |-> l, id |-> map[l]]>> \o ByIdOrder(map, S \ {l})

\* lines 429-490: the loaded index takes the place of the caller's index
Load(t) ==
    /\ Idle(t)
    /\ \A u \in Threads : th[u].pc = "idle"
    /\ LET r == [IdleRec EXCEPT !.op = "load", !.pc = "done"]
       IN  IF disk.sidecar = <<>> \/ disk.graph = <<>>
           THEN /\ Set(t, [r EXCEPT !.ret = "PersistenceIOError"])
                /\ UNCHANGED <<index, dim, space, regs, loaded>>
           ELSE IF ParseSpace(disk.sidecar[1].space) = <<>>
           THEN /\ Set(t, [r EXCEPT !.ret = "CorruptPersistedState"])
                /\ UNCHANGED <<index, dim, space, regs, loaded>>
           ELSE /\ Set(t, [r EXCEPT !.ret = "ok"])
                /\ hnsw' = disk.graph[1]
                /\ metadata_store' = disk.sidecar[1].metadata_store
                /\ label_to_id' = disk.sidecar[1].label_to_id
                /\ current_id' = disk.sidecar[1].current_id
                /\ dim' = disk.sidecar[1].dim
                /\ space' = ParseSpace(disk.sidecar[1].space)[1]
                /\ ef_search' = LoadEfSearch
                /\ regs' = ByIdOrder(disk.sidecar[1].label_to_id,
                                     DOMAIN disk.sidecar[1].label_to_id)
                /\ loaded' = <<disk.sidecar[1].label_to_id>>
    /\ Called(t)
    /\ UNCHANGED <<random_seed, callers, work, pipeline, lock, disk, saved>>

\* the caller takes the result
Return(t) ==
    /\ th[t].pc = "done"
    /\ Set(t, IdleRec)
    /\ pre' = <<>>
    /\ UNCHANGED <<index, fixed, lock, disk, regs, saved, loaded>>

\* no pipeline object and no call on one
\* insert: how fit_transform put the rows into its private index
NoCall == [op |-> "none", arg |-> <<>>, ret |-> "", out |-> <<>>, insert |-> ""]
NoPipeline == umap = <<>> /\ model_file = <<>> /\ ucall = NoCall /\ km = <<>>

(* --------------------------- specifications --------------------------- *)
\* HnswIndex::new, lines 116-131: the index after construction
InitIndex ==
    /\ dim \in Dims
    /\ space = "Euclidean"
    /\ random_seed \in {<<>>} \cup {<<s>> : s \in SeedPool}
    /\ hnsw = <<>>
    /\ metadata_store = NoMap
    /\ current_id = 0
    /\ label_to_id = NoMap
    /\ ef_search = DefaultEfConstruction
    /\ lock = [n \in LockNames |-> Free]
    /\ th = [t \in Threads |-> IdleRec]
    /\ disk = [graph |-> <<>>, sidecar |-> <<>>]
    /\ regs = <<>>
    /\ pre = <<>>
    /\ saved = <<>>
    /\ loaded = <<>>
    /\ NoPipeline

\* one caller; every argument set
SeqWork ==
    [vecs |-> VecPool, labels |-> LabelPool, metas |-> MetaPool, ks |-> KPool,
     efs |-> EfPool, batch |-> MaxBatch, cap |-> MaxId]

Init == InitIndex /\ callers = {"t1"} /\ work = SeqWork

\* the steps an operation in flight takes after its call
Step(t) ==
    \/ AddItemGenLabel(t)
    \/ AddItemLockLabels(t)
    \/ AddItemRegister(t)
    \/ AddItemStoreMeta(t)
    \/ AddItemInsert(t)
    \/ AddBatchGenLabel(t)
    \/ AddBatchLockLabels(t)
    \/ AddBatchRegister(t)
    \/ AddBatchStoreMeta(t)
    \/ AddBatchInsert(t)
    \/ SearchSetEf(t)
    \/ SearchLockHnsw(t)
    \/ SearchGraph(t)
    \/ SearchAssemble(t)
    \/ SearchWithMetadataAssemble(t)
    \/ SizeRead(t)
    \/ EmptyRead(t)
    \/ SetEfWrite(t)
    \/ ConfigLockEf(t)
    \/ ConfigSize(t)
    \/ StatsSize(t)
    \/ StatsEf(t)
    \/ Return(t)

Call(t) ==
    \/ AddItemCall(t)
    \/ AddBatchCall(t)
    \/ SearchCall(t)
    \/ SearchWithMetadataCall(t)
    \/ SizeCall(t)
    \/ EmptyCall(t)
    \/ SetEfCall(t)
    \/ ConfigCall(t)
    \/ StatsCall(t)

Next == \E t \in Threads : Call(t) \/ Step(t)

\* one caller running the in-memory operations one after another
Spec == Init /\ [][Next]_vars

\* two callers that insert, search and read the size at the same time
ConcWork ==
    [vecs |-> {<<0>>, <<0, 1>>}, labels |-> {"1"}, metas |-> {}, ks |-> {1},
     efs |-> {}, batch |-> ConcMaxBatch, cap |-> ConcMaxId]

ConcInit ==
    InitIndex /\ dim = 1 /\ random_seed = <<>> /\ callers = Threads /\ work = ConcWork

ConcNext ==
    \E t \in Threads :
        \/ AddItemCall(t)
        \/ AddItemGenLabel(t)
        \/ AddItemLockLabels(t)
        \/ AddItemRegister(t)
        \/ AddItemStoreMeta(t)
        \/ AddItemInsert(t)
        \/ AddBatchCall(t)
        \/ AddBatchGenLabel(t)
        \/ AddBatchLockLabels(t)
        \/ AddBatchRegister(t)
        \/ AddBatchStoreMeta(t)
        \/ AddBatchInsert(t)
        \/ SearchCall(t)
        \/ SearchLockHnsw(t)
        \/ SearchGraph(t)
        \/ SearchAssemble(t)
        \/ SizeCall(t)
        \/ SizeRead(t)
        \/ Return(t)

ConcSpec == ConcInit /\ [][ConcNext]_vars

\* one caller that inserts, searches, saves and loads
PersistWork ==
    [vecs |-> {<<0>>, <<1>>, <<0, 1>>}, labels |-> {"a", "b"}, metas |-> MetaPool, ks |-> {1},
     efs |-> EfPool, batch |-> 0, cap |-> PersistMaxId]

PersistInit ==
    InitIndex /\ random_seed = <<>> /\ callers = {"t1"} /\ work = PersistWork

PersistNext ==
    \E t \in Threads :
        \/ AddItemCall(t)
        \/ AddItemGenLabel(t)
        \/ AddItemLockLabels(t)
        \/ AddItemRegister(t)
        \/ AddItemStoreMeta(t)
        \/ AddItemInsert(t)
        \/ SearchCall(t)
        \/ SearchSetEf(t)
        \/ SearchLockHnsw(t)
        \/ SearchGraph(t)
        \/ SearchAssemble(t)
        \/ SizeCall(t)
        \/ SizeRead(t)
        \/ SaveCall(t)
        \/ SaveGraph(t)
        \/ SaveLockMeta(t)
        \/ SaveLockLabels(t)
        \/ SaveSidecar(t)
        \/ Load(t)
        \/ Return(t)

PersistSpec == PersistInit /\ [][PersistNext]_vars

\* two callers running every operation of a shared index, on the least data
LiveWork ==
    [vecs |-> {<<0>>}, labels |-> {"a"}, metas |-> {}, ks |-> {},
     efs |-> EfPool, batch |-> LiveMaxBatch, cap |-> LiveMaxId]

LiveInit ==
    InitIndex /\ dim = 1 /\ random_seed = <<>> /\ callers = Threads /\ work = LiveWork

SaveStep(t) ==
    \/ SaveGraph(t)
    \/ SaveLockMeta(t)
    \/ SaveLockLabels(t)
    \/ SaveSidecar(t)

LiveNext == \E t \in Threads : Call(t) \/ SaveCall(t) \/ Step(t) \/ SaveStep(t)

\* every thread that can take a step of its operation eventually takes one
LiveSpec ==
    LiveInit /\ [][LiveNext]_vars /\ \A t \in Threads : SF_vars(Step(t) \/ SaveStep(t))

\* one or two callers that search with a breadth override and call set_ef
EfWork ==
    [vecs |-> {<<0>>}, labels |-> {"a"}, metas |-> {}, ks |-> {1},
     efs |-> {10, 20}, batch |-> 0, cap |-> EfMaxId]

EfInit ==
    /\ InitIndex /\ dim = 1 /\ random_seed = <<>> /\ work = EfWork
    /\ callers \in {{"t1"}, Threads}

EfNext ==
    \E t \in Threads :
        \/ AddItemCall(t)
        \/ AddItemLockLabels(t)
        \/ AddItemRegister(t)
        \/ AddItemStoreMeta(t)
        \/ AddItemInsert(t)
        \/ SearchCall(t)
        \/ SearchSetEf(t)
        \/ SearchLockHnsw(t)
        \/ SearchGraph(t)
        \/ SearchAssemble(t)
        \/ SetEfCall(t)
        \/ SetEfWrite(t)
        \/ Return(t)

EfSpec == EfInit /\ [][EfNext]_vars


\* one caller whose keyword values may be of the wrong type
ArgWork ==
    [vecs |-> {<<0>>, <<0, 1>>}, labels |-> {"a"}, metas |-> {"m"}, ks |-> {1},
     efs |-> {10}, batch |-> ArgMaxBatch, cap |-> ArgMaxId,
     odd |-> {"label", "metadata", "labels", "ef"}]

ArgInit ==
    InitIndex /\ dim = 1 /\ random_seed = <<>> /\ callers = {"t1"} /\ work = ArgWork

ArgNext ==
    \E t \in Threads :
        \/ AddItemCall(t)
        \/ AddItemGenLabel(t)
        \/ AddItemLockLabels(t)
        \/ AddItemRegister(t)
        \/ AddItemStoreMeta(t)
        \/ AddItemInsert(t)
        \/ AddBatchCall(t)
        \/ AddBatchGenLabel(t)
        \/ AddBatchLockLabels(t)
        \/ AddBatchRegister(t)
        \/ AddBatchStoreMeta(t)
        \/ AddBatchInsert(t)
        \/ SearchCall(t)
        \/ SearchSetEf(t)
        \/ SearchLockHnsw(t)
        \/ SearchGraph(t)
        \/ SearchAssemble(t)
        \/ Return(t)

ArgSpec == ArgInit /\ [][ArgNext]_vars

\* two callers that insert and save at once, and load when both are idle
TornWork ==
    [vecs |-> {<<0>>}, labels |-> {"a", "b"}, metas |-> {}, ks |-> {},
     efs |-> {}, batch |-> 0, cap |-> TornMaxId]

TornInit ==
    InitIndex /\ dim = 1 /\ random_seed = <<>> /\ callers = Threads /\ work = TornWork

TornNext ==
    \E t \in Threads :
        \/ AddItemCall(t)
        \/ AddItemLockLabels(t)
        \/ AddItemRegister(t)
        \/ AddItemStoreMeta(t)
        \/ AddItemInsert(t)
        \/ SaveCall(t)
        \/ SaveGraph(t)
        \/ SaveLockMeta(t)
        \/ SaveLockLabels(t)
        \/ SaveSidecar(t)
        \/ Load(t)
        \/ Return(t)

TornSpec == TornInit /\ [][TornNext]_vars


(* --------------------------------- new -------------------------------- *)
\* a space match that takes every name for euclidean
DistanceOfAny(name) == [ok |-> TRUE, err |-> "", class |-> "", space |-> "Euclidean"]

\* lines 96-114: the distance type of a space name
DistanceOf(name) ==
    CASE name = "euclidean" ->
             [ok |-> TRUE, err |-> "", class |-> "", space |-> "Euclidean"]
      [] name \in {"cosine", "inner_product"} ->
             [ok |-> FALSE, err |-> "UnsupportedCapability", class |-> "RuntimeError",
              space |-> ""]
      [] OTHER ->
             [ok |-> FALSE, err |-> "InvalidArgument", class |-> "ArgumentError",
              space |-> ""]

\* lines 42-132: the checks of new in the order the code makes them
NewIndex(dimArg, spaceArg, efArg, seedArg) ==
    LET fail(e) == [ok |-> FALSE, err |-> e, class |-> "ArgumentError", dim |-> 0,
                    space |-> "", ef |-> 0, seed |-> <<>>]
        name == IF spaceArg = <<>> THEN "euclidean" ELSE spaceArg[1]
        d    == DistanceOf(name)
    IN  IF dimArg = <<>> THEN fail("InvalidArgument")
        ELSE IF dimArg[1] < 0 THEN fail("InvalidArgument")
        ELSE IF dimArg[1] = 0 THEN fail("InvalidDimension")
        ELSE IF ~d.ok THEN [fail(d.err) EXCEPT !.class = d.class]
        ELSE [ok |-> TRUE, err |-> "", class |-> "", dim |-> dimArg[1],
              space |-> d.space,
              ef |-> IF efArg = <<>> THEN DefaultEfConstruction ELSE efArg[1],
              seed |-> seedArg]

DimArgs == {-1, 0, 1, 2}
SpaceArgs == {"euclidean", "cosine", "inner_product", "manhattan"}
EfConstructionArgs == {50}

\* no HnswIndex object
NoIndex ==
    /\ dim = 0 /\ space = "" /\ random_seed = <<>>
    /\ hnsw = <<>> /\ metadata_store = NoMap /\ current_id = 0 /\ label_to_id = NoMap
    /\ ef_search = 0
    /\ lock = [n \in LockNames |-> Free]
    /\ th = [t \in Threads |-> IdleRec]
    /\ disk = [graph |-> <<>>, sidecar |-> <<>>]
    /\ regs = <<>> /\ pre = <<>> /\ saved = <<>> /\ loaded = <<>>
    /\ callers = {}

\* no index yet; the arguments new will be called with
NewInit ==
    /\ NoIndex
    /\ NoPipeline
    /\ work \in [dim : Opt(DimArgs), space : Opt(SpaceArgs),
                 ef_construction : Opt(EfConstructionArgs), seed : Opt(SeedPool)]

\* HnswIndex::new called by t; the index exists only when new returns Ok
New(t) ==
    /\ callers = {} /\ \A u \in Threads : th[u].pc = "idle"
    /\ LET r == NewIndex(work.dim, work.space, work.ef_construction, work.seed)
       IN  IF r.ok
           THEN /\ dim' = r.dim /\ space' = r.space /\ random_seed' = r.seed
                /\ ef_search' = r.ef
                /\ callers' = {t}
                /\ Set(t, [IdleRec EXCEPT !.op = "new", !.pc = "done", !.ret = "ok"])
           ELSE /\ Set(t, [IdleRec EXCEPT !.op = "new", !.pc = "done", !.ret = r.err,
                                          !.out = <<r.class>>])
                /\ UNCHANGED <<dim, space, random_seed, ef_search, callers>>
    /\ UNCHANGED <<hnsw, metadata_store, current_id, label_to_id, lock, disk, work, hist,
                   pipeline>>

NewNext ==
    \E t \in Threads :
        \/ New(t)
        \/ ConfigCall(t)
        \/ ConfigLockEf(t)
        \/ ConfigSize(t)
        \/ Return(t)

\* an index is created, or not, and its configuration read
NewSpec == NewInit /\ [][NewNext]_vars


(* ------------------------------ RustUMAP ------------------------------ *)
\* Ruby values as the pipeline receives them: numbers, strings, arrays
Num(n) == [num |-> n]
Str(s) == [str |-> s]
Ary(s) == [ary |-> s]
IsNum(v) == DOMAIN v = {"num"}
IsAry(v) == DOMAIN v = {"ary"}

\* embedder.rs 50-61: an option as usize; nil, or a value to_u32 refuses, is
\* the default
UsizeOr(v, default) == IF v = <<>> \/ v[1] < 0 THEN default ELSE v[1]

\* embedder.rs 76-87: the seed; a value to_u64 refuses becomes 42
SeedOf(v) == IF v = <<>> THEN <<>> ELSE IF v[1] < 0 THEN <<FallbackSeed>> ELSE <<v[1]>>

\* embedder.rs 49-124
RustUMAPNew(options) ==
    [n_components |-> UsizeOr(options.n_components, DefaultNComponents),
     n_neighbors |-> UsizeOr(options.n_neighbors, DefaultNNeighbors),
     random_seed |-> SeedOf(options.random_seed),
     nb_grad_batch |-> UsizeOr(options.nb_grad_batch, DefaultNbGradBatch),
     nb_sampling_by_edge |-> UsizeOr(options.nb_sampling_by_edge, DefaultNbSamplingByEdge),
     training_data |-> <<>>,
     training_embeddings |-> <<>>]

\* embedder.rs 146-159: one row of numbers, or the error of its first bad value
RECURSIVE ParseRow(_, _)
ParseRow(vals, acc) ==
    IF vals = <<>> THEN [ok |-> TRUE, err |-> "", row |-> acc]
    ELSE IF ~IsNum(vals[1]) THEN [ok |-> FALSE, err |-> "TypeError", row |-> <<>>]
    ELSE ParseRow(Tail(vals), Append(acc, vals[1].num))

\* embedder.rs 134-169: the rows in order; a row that is no array, a value that
\* is no number, a row of another length than the first
RECURSIVE FitRows(_, _)
FitRows(rows, acc) ==
    IF rows = <<>> THEN [ok |-> TRUE, err |-> "", data |-> acc]
    ELSE IF ~IsAry(rows[1]) THEN [ok |-> FALSE, err |-> "TypeError", data |-> <<>>]
    ELSE LET p == ParseRow(rows[1].ary, <<>>)
         IN  IF ~p.ok THEN [ok |-> FALSE, err |-> p.err, data |-> <<>>]
             ELSE IF acc # <<>> /\ Len(p.row) # Len(acc[1])
             THEN [ok |-> FALSE, err |-> "RaggedInput", data |-> <<>>]
             ELSE FitRows(Tail(rows), Append(acc, p.row))

\* embedder.rs 128-176
FitInput(data) ==
    IF ~IsAry(data) THEN [ok |-> FALSE, err |-> "TypeError", data |-> <<>>]
    ELSE LET p == FitRows(data.ary, <<>>)
         IN  IF ~p.ok THEN p
             ELSE IF p.data = <<>> THEN [ok |-> FALSE, err |-> "EmptyInput", data |-> <<>>]
             ELSE p

\* what the graph construction and the solver can answer (embedder.rs 214-237)
SolverOutcomes == {"graph_error", "solver_error", "zero_points", "ok"}
SolverError(o) ==
    CASE o = "graph_error" -> "GraphConstructionFailed"
      [] o = "solver_error" -> "EmbeddingFailed"
      [] o = "zero_points" -> "EmbeddingFailed"

\* embedder.rs 240-250: the embedded array, one row of n_components per point
Embeddings(n, nc) ==
    {[i \in 1..n |-> [c \in 1..nc |-> f[i] + c - 1]] : f \in [1..n -> EmbVals]}
NoEmbedding(n, nc) == [i \in 1..n |-> [c \in 1..nc |-> c - 1]]

\* a fit that stores the training vectors before the solver has answered
StoreFittedEarly(u, data, o, emb) ==
    IF o = "ok" THEN [u EXCEPT !.training_data = <<data>>, !.training_embeddings = <<emb>>]
    ELSE [u EXCEPT !.training_data = <<data>>]

\* embedder.rs 232-253: the pipeline after the solver's answer o
StoreFitted(u, data, o, emb) ==
    IF o = "ok" THEN [u EXCEPT !.training_data = <<data>>, !.training_embeddings = <<emb>>]
    ELSE u


\* f64 arithmetic on the values the model uses, kept exact: n / d in lowest terms
RECURSIVE GCD(_, _)
GCD(a, b) == IF b = 0 THEN a ELSE GCD(b, a % b)
Frac(n, d) == LET g == GCD(n, d) IN [n |-> n \div g, d |-> d \div g]
FZero == [n |-> 0, d |-> 1]
FAdd(x, y) ==
    LET l == (x.d \div GCD(x.d, y.d)) * y.d
    IN  Frac(x.n * (l \div x.d) + y.n * (l \div y.d), l)
FMul(x, v) == LET g == GCD(v, x.d) IN Frac(x.n * (v \div g), x.d \div g)
FDiv(x, y) ==
    LET g1 == GCD(x.n, y.n)
        g2 == GCD(x.d, y.d)
    IN  Frac((x.n \div g1) * (y.d \div g2), (x.d \div g2) * (y.n \div g1))

\* embedder.rs 405-411: zip stops at the shorter of the two
RECURSIVE SumSquares(_, _)
SumSquares(a, b) ==
    IF a = <<>> \/ b = <<>> THEN 0
    ELSE (a[1] - b[1]) * (a[1] - b[1]) + SumSquares(Tail(a), Tail(b))
Sqrt(n) == CHOOSE r \in 0..n : r * r = n
euclidean_distance(a, b) == Sqrt(SumSquares(a, b))

\* embedder.rs 365-373: the training indices by distance, the sort being
\* stable, cut to the first k
RECURSIVE SortedByDist(_, _, _)
SortedByDist(point, train, S) ==
    IF S = {} THEN <<>>
    ELSE LET m == CHOOSE i \in S : \A j \in S :
                      \/ euclidean_distance(point, train[i]) < euclidean_distance(point, train[j])
                      \/ /\ euclidean_distance(point, train[i]) = euclidean_distance(point, train[j])
                         /\ i <= j
         IN  <<m>> \o SortedByDist(point, train, S \ {m})

\* a selection that takes the first k training vectors as they are stored
KNearestUnsorted(point, train, k) == [n \in 1..k |-> n]

KNearest(point, train, k) == SubSeq(SortedByDist(point, train, 1..Len(train)), 1, k)

\* a plain average: every neighbour weighs the same
WeightUniform(dist) == Frac(1, 1)

\* embedder.rs 380: 1.0 / (dist + 0.001)
Weight(dist) == Frac(WeightEpsilonInv, WeightEpsilonInv * dist + 1)

\* embedder.rs 376-386: total_weight and one component of avg_embedding, as
\* the loop over the neighbours accumulates them
RECURSIVE TotalWeight(_, _, _)
TotalWeight(point, train, near) ==
    IF near = <<>> THEN FZero
    ELSE FAdd(Weight(euclidean_distance(point, train[near[Len(near)]])),
              TotalWeight(point, train, SubSeq(near, 1, Len(near) - 1)))

RECURSIVE Accumulated(_, _, _, _, _)
Accumulated(point, train, emb, near, c) ==
    IF near = <<>> THEN FZero
    ELSE LET idx == near[Len(near)]
             val == IF c <= Len(emb[idx]) THEN emb[idx][c] ELSE 0
         IN  FAdd(FMul(Weight(euclidean_distance(point, train[idx])), val),
                  Accumulated(point, train, emb, SubSeq(near, 1, Len(near) - 1), c))

\* embedder.rs 363-399: the output row of one input row
TransformPoint(u, point) ==
    LET train == u.training_data[1]
        emb   == u.training_embeddings[1]
        k     == Min(u.n_neighbors, Len(train))
        near  == KNearest(point, train, k)
    IN  [c \in 1..u.n_components |->
            FDiv(Accumulated(point, train, emb, near, c), TotalWeight(point, train, near))]

\* embedder.rs 336-356: the input rows; no check of their lengths
RECURSIVE TransformRows(_, _)
TransformRows(rows, acc) ==
    IF rows = <<>> THEN [ok |-> TRUE, err |-> "", data |-> acc]
    ELSE IF ~IsAry(rows[1]) THEN [ok |-> FALSE, err |-> "TypeError", data |-> <<>>]
    ELSE LET p == ParseRow(rows[1].ary, <<>>)
         IN  IF ~p.ok THEN [ok |-> FALSE, err |-> p.err, data |-> <<>>]
             ELSE TransformRows(Tail(rows), Append(acc, p.row))

\* embedder.rs 322-402
TransformResult(u, data) ==
    IF u.training_data = <<>> \/ u.training_embeddings = <<>>
    THEN [ok |-> FALSE, err |-> "ModelNotFitted", out |-> <<>>]
    ELSE IF ~IsAry(data) THEN [ok |-> FALSE, err |-> "TypeError", out |-> <<>>]
    ELSE LET p == TransformRows(data.ary, <<>>)
         IN  IF ~p.ok THEN [ok |-> FALSE, err |-> p.err, out |-> <<>>]
             ELSE [ok |-> TRUE, err |-> "",
                   out |-> [n \in 1..Len(p.data) |-> TransformPoint(u, p.data[n])]]


\* Ruby arrays of numbers
NumRow(s) == Ary([i \in 1..Len(s) |-> Num(s[i])])
Rows(ss) == Ary([i \in 1..Len(ss) |-> NumRow(ss[i])])

UmapOptionPool ==
    {[n_components |-> <<>>, n_neighbors |-> <<>>, random_seed |-> <<>>,
      nb_grad_batch |-> <<>>, nb_sampling_by_edge |-> <<>>],
     [n_components |-> <<1>>, n_neighbors |-> <<1>>, random_seed |-> <<7>>,
      nb_grad_batch |-> <<5>>, nb_sampling_by_edge |-> <<4>>],
     [n_components |-> <<1>>, n_neighbors |-> <<2>>, random_seed |-> <<-1>>,
      nb_grad_batch |-> <<-1>>, nb_sampling_by_edge |-> <<>>]}

FitDatasets ==
    {Rows(<<<<0>>>>), Rows(<<<<0>>, <<3>>>>), Rows(<<<<3>>, <<3>>>>),
     Rows(<<<<0, 0>>, <<3, 4>>>>),
     Rows(<<>>), Rows(<<<<0>>, <<1, 2>>>>),
     Ary(<<NumRow(<<0>>), Ary(<<Str("x")>>)>>), Ary(<<Num(7)>>), Num(7)}

TransformInputs ==
    {Rows(<<<<0>>>>), Rows(<<<<1>>, <<3>>>>), Rows(<<<<0, 4>>>>), Rows(<<>>),
     Ary(<<Ary(<<Str("x")>>)>>)}

UmapWork ==
    [options |-> UmapOptionPool, datasets |-> FitDatasets, inputs |-> TransformInputs]

\* what a call on the pipeline object does not touch
indexside == <<index, dim, space, random_seed, callers, work, lock, th, disk, hist, km>>

\* embedder.rs 49-124
UmapNew ==
    /\ umap = <<>>
    /\ \E o \in work.options : umap' = <<RustUMAPNew(o)>>
    /\ ucall' = [NoCall EXCEPT !.op = "new", !.ret = "ok"]
    /\ UNCHANGED <<indexside, model_file>>

\* embedder.rs 205-211: serial_insert when the pipeline has a seed,
\* parallel_insert when it has none
InsertMode(seed) == IF seed # <<>> THEN "serial" ELSE "parallel"

\* embedder.rs 126-264: the rows are inserted (200-211) before the graph and
\* the solver answer
FitTransform ==
    /\ umap # <<>>
    /\ \E data \in work.datasets :
          LET p == FitInput(data)
              c == [NoCall EXCEPT !.op = "fit_transform", !.arg = data]
              d == [c EXCEPT !.insert = InsertMode(umap[1].random_seed)]
          IN  IF ~p.ok
              THEN umap' = umap /\ ucall' = [c EXCEPT !.ret = p.err]
              ELSE \E o \in SolverOutcomes,
                      emb \in Embeddings(Len(p.data), umap[1].n_components) :
                      /\ o # "ok" => emb = NoEmbedding(Len(p.data), umap[1].n_components)
                      /\ umap' = <<StoreFitted(umap[1], p.data, o, emb)>>
                      /\ ucall' = IF o = "ok" THEN [d EXCEPT !.ret = "ok", !.out = emb]
                                  ELSE [d EXCEPT !.ret = SolverError(o)]
    /\ UNCHANGED <<indexside, model_file>>

\* a saved model that does not keep the neighbor count
SavedUMAPModelDefaults(u) ==
    [n_components |-> u.n_components, n_neighbors |-> DefaultNNeighbors,
     nb_grad_batch |-> u.nb_grad_batch, nb_sampling_by_edge |-> u.nb_sampling_by_edge,
     embeddings |-> u.training_embeddings[1], original_data |-> u.training_data[1]]

\* embedder.rs 277-284
SavedUMAPModel(u) ==
    [n_components |-> u.n_components, n_neighbors |-> u.n_neighbors,
     nb_grad_batch |-> u.nb_grad_batch, nb_sampling_by_edge |-> u.nb_sampling_by_edge,
     embeddings |-> u.training_embeddings[1], original_data |-> u.training_data[1]]

\* embedder.rs 267-296: model_file[1] is what the file holds; model_file[2]
\* remembers the pipeline it was written from, for the round trip
SaveModel ==
    /\ umap # <<>>
    /\ LET c == [NoCall EXCEPT !.op = "save_model"]
       IN  IF umap[1].training_data = <<>> \/ umap[1].training_embeddings = <<>>
           THEN model_file' = model_file /\ ucall' = [c EXCEPT !.ret = "ModelNotFitted"]
           ELSE /\ model_file' = <<SavedUMAPModel(umap[1]), umap[1]>>
                /\ ucall' = [c EXCEPT !.ret = "ok"]
    /\ UNCHANGED <<indexside, umap>>

\* a load that restores the parameters and no training state
RustUMAPLoadEmpty(m) ==
    [n_components |-> m.n_components, n_neighbors |-> m.n_neighbors,
     random_seed |-> <<>>,
     nb_grad_batch |-> m.nb_grad_batch, nb_sampling_by_edge |-> m.nb_sampling_by_edge,
     training_data |-> <<>>, training_embeddings |-> <<>>]

\* a load that restores the training vectors and no embeddings
RustUMAPLoadDataOnly(m) ==
    [n_components |-> m.n_components, n_neighbors |-> m.n_neighbors,
     random_seed |-> <<>>,
     nb_grad_batch |-> m.nb_grad_batch, nb_sampling_by_edge |-> m.nb_sampling_by_edge,
     training_data |-> <<m.original_data>>, training_embeddings |-> <<>>]

\* embedder.rs 310-318
RustUMAPLoad(m) ==
    [n_components |-> m.n_components, n_neighbors |-> m.n_neighbors,
     random_seed |-> <<>>,
     nb_grad_batch |-> m.nb_grad_batch, nb_sampling_by_edge |-> m.nb_sampling_by_edge,
     training_data |-> <<m.original_data>>, training_embeddings |-> <<m.embeddings>>]

\* embedder.rs 299-319: the loaded pipeline takes the place of the caller's
LoadModel ==
    /\ LET c == [NoCall EXCEPT !.op = "load_model"]
       IN  IF model_file = <<>>
           THEN umap' = umap /\ ucall' = [c EXCEPT !.ret = "PersistenceIOError"]
           ELSE /\ umap' = <<RustUMAPLoad(model_file[1])>>
                /\ ucall' = [c EXCEPT !.ret = "ok"]
    /\ UNCHANGED <<indexside, model_file>>

\* a transform that takes the training state out of its cells
AfterTransformTaken(u) == [u EXCEPT !.training_data = <<>>, !.training_embeddings = <<>>]

\* embedder.rs 322-325: transform has &self and only borrows the two cells
AfterTransform(u) == u

\* embedder.rs 322-402
Transform ==
    /\ umap # <<>>
    /\ \E data \in work.inputs :
          LET r == TransformResult(umap[1], data)
          IN  ucall' = [NoCall EXCEPT !.op = "transform", !.arg = data,
                                      !.ret = IF r.ok THEN "ok" ELSE r.err,
                                      !.out = r.out]
    /\ umap' = <<AfterTransform(umap[1])>>
    /\ UNCHANGED <<indexside, model_file>>

UmapInit == NoIndex /\ NoPipeline /\ work = UmapWork

UmapNext == UmapNew \/ FitTransform \/ SaveModel \/ LoadModel \/ Transform

\* one pipeline object and the calls on it, one after another
UmapSpec == UmapInit /\ [][UmapNext]_vars

(* ------------- the RustUMAP of the annembed_ruby extension ------------- *)
\* annembed_ruby/src/embedder.rs 45-92: n_components, n_neighbors and the seed,
\* read as in the clusterkit extension; no gradient options
AnnEmbedRustUMAPNew(options) ==
    [n_components |-> UsizeOr(options.n_components, DefaultNComponents),
     n_neighbors |-> UsizeOr(options.n_neighbors, DefaultNNeighbors),
     random_seed |-> SeedOf(options.random_seed),
     training_data |-> <<>>,
     training_embeddings |-> <<>>]

\* annembed_ruby/src/embedder.rs 157-164: Hnsw::new and parallel_insert, with
\* no look at the seed
AnnEmbedInsertMode(seed) == "parallel"

\* annembed_ruby/src/embedder.rs 45-92
AnnEmbedNew ==
    /\ umap = <<>>
    /\ \E o \in work.options : umap' = <<AnnEmbedRustUMAPNew(o)>>
    /\ ucall' = [NoCall EXCEPT !.op = "new", !.ret = "ok"]
    /\ UNCHANGED <<indexside, model_file>>

\* annembed_ruby/src/embedder.rs 94-221: the same parsing, solver answers and
\* stores as the clusterkit extension
AnnEmbedFitTransform ==
    /\ umap # <<>>
    /\ \E data \in work.datasets :
          LET p == FitInput(data)
              c == [NoCall EXCEPT !.op = "fit_transform", !.arg = data]
              d == [c EXCEPT !.insert = AnnEmbedInsertMode(umap[1].random_seed)]
          IN  IF ~p.ok
              THEN umap' = umap /\ ucall' = [c EXCEPT !.ret = p.err]
              ELSE \E o \in SolverOutcomes,
                      emb \in Embeddings(Len(p.data), umap[1].n_components) :
                      /\ o # "ok" => emb = NoEmbedding(Len(p.data), umap[1].n_components)
                      /\ umap' = <<StoreFitted(umap[1], p.data, o, emb)>>
                      /\ ucall' = IF o = "ok" THEN [d EXCEPT !.ret = "ok", !.out = emb]
                                  ELSE [d EXCEPT !.ret = SolverError(o)]
    /\ UNCHANGED <<indexside, model_file>>

AnnEmbedInit == NoIndex /\ NoPipeline /\ work = UmapWork

AnnEmbedNext == AnnEmbedNew \/ AnnEmbedFitTransform

\* one AnnEmbed::RustUMAP object and the fits of it, one after another
AnnEmbedSpec == AnnEmbedInit /\ [][AnnEmbedNext]_vars

\* the inputs of fit_transform, handed to transform again (but for the ragged
\* one, which no fit accepts)
SelfWork ==
    [options |-> UmapOptionPool, datasets |-> FitDatasets,
     inputs |-> FitDatasets \ {Rows(<<<<0>>, <<1, 2>>>>)}]

SelfInit == NoIndex /\ NoPipeline /\ work = SelfWork

SelfNext == UmapNew \/ FitTransform \/ Transform

\* one pipeline object, fitted and then asked to transform its training input
SelfSpec == SelfInit /\ [][SelfNext]_vars

\* the option values a caller can hand to new: none, one to_u32 refuses, zero,
\* and positive ones
CfgOptionVals == {<<>>, <<-1>>, <<0>>, <<1>>, <<3>>}

CfgOptionPool ==
    {[n_components |-> nc, n_neighbors |-> nn, random_seed |-> <<>>,
      nb_grad_batch |-> <<>>, nb_sampling_by_edge |-> <<>>] :
        nc \in CfgOptionVals, nn \in CfgOptionVals}

CfgWork ==
    [options |-> CfgOptionPool,
     datasets |-> {Rows(<<<<0>>>>), Rows(<<<<0>>, <<3>>>>), Num(7)},
     inputs |-> {}]

CfgInit == NoIndex /\ NoPipeline /\ work = CfgWork

CfgNext == UmapNew \/ FitTransform

\* a pipeline object configured with any option values, and fitted
CfgSpec == CfgInit /\ [][CfgNext]_vars

(* ------------------- clustering: the hdbscan wrapper ------------------ *)
\* utils.rs 98-121: the rows in order; a row that is no array, a row of another
\* length than the first, a value that is no number
RECURSIVE VecVecRows(_, _)
VecVecRows(rows, acc) ==
    IF rows = <<>> THEN [ok |-> TRUE, err |-> "", data |-> acc]
    ELSE IF ~IsAry(rows[1]) THEN [ok |-> FALSE, err |-> "TypeError", data |-> <<>>]
    ELSE IF acc # <<>> /\ Len(rows[1].ary) # Len(acc[1])
    THEN [ok |-> FALSE, err |-> "InvalidArgument", data |-> <<>>]
    ELSE LET p == ParseRow(rows[1].ary, <<>>)
         IN  IF ~p.ok THEN [ok |-> FALSE, err |-> p.err, data |-> <<>>]
             ELSE VecVecRows(Tail(rows), Append(acc, p.row))

\* utils.rs 84-124
ruby_array_to_vec_vec_f64(data) ==
    IF ~IsAry(data) THEN [ok |-> FALSE, err |-> "TypeError", data |-> <<>>]
    ELSE IF data.ary = <<>> THEN [ok |-> FALSE, err |-> "InvalidArgument", data |-> <<>>]
    ELSE VecVecRows(data.ary, <<>>)

\* usize::saturating_sub
SaturatingSub(a, b) == IF a >= b THEN a - b ELSE 0

\* a clamp without its lower end
AdjustedMinSamplesNoFloor(min_samples, n_samples) ==
    Min(min_samples, SaturatingSub(n_samples, 1))

\* hdbscan_wrapper.rs 25
AdjustedMinSamples(min_samples, n_samples) ==
    Max(Min(min_samples, SaturatingSub(n_samples, 1)), 1)

\* a clamp that does not look at the number of samples
AdjustedMinClusterSizeNoCap(min_cluster_size, n_samples) == Max(min_cluster_size, 2)

\* hdbscan_wrapper.rs 26
AdjustedMinClusterSize(min_cluster_size, n_samples) ==
    Max(Min(min_cluster_size, n_samples), 2)

\* what Hdbscan::cluster can answer: an error, or a label per point, -1 for
\* noise (here all points in one cluster, or all noise)
ClusterOutcomes == {"error", "one_cluster", "all_noise"}

\* hdbscan_wrapper.rs 49-76: the labels and the fields made up from them
HdbscanResult(labels) ==
    [labels         |-> labels,
     probabilities  |-> [i \in 1..Len(labels) |-> IF labels[i] = -1 THEN 0 ELSE 1],
     outlier_scores |-> [i \in 1..Len(labels) |-> IF labels[i] = -1 THEN 1 ELSE 0]]

\* hdbscan_wrapper.rs 7-83; out is the hyperparameters handed to the
\* clusterer, followed by the result on success
hdbscan_fit ==
    /\ ucall = NoCall
    /\ \E o \in ClusterOutcomes :
          LET data == work.data
              min_samples == work.min_samples
              min_cluster_size == work.min_cluster_size
              p == ruby_array_to_vec_vec_f64(data)
              n_samples == Len(p.data)
              c == [NoCall EXCEPT !.op = "hdbscan_fit",
                                  !.arg = [data |-> data, min_samples |-> min_samples,
                                           min_cluster_size |-> min_cluster_size]]
              hyper_params ==
                  [min_cluster_size |-> AdjustedMinClusterSize(min_cluster_size, n_samples),
                   min_samples      |-> AdjustedMinSamples(min_samples, n_samples)]
              labels == [i \in 1..n_samples |-> IF o = "all_noise" THEN -1 ELSE 0]
          IN  ucall' = IF ~p.ok THEN [c EXCEPT !.ret = p.err]
                       ELSE IF o = "error"
                       THEN [c EXCEPT !.ret = "ClusteringFailed", !.out = <<hyper_params>>]
                       ELSE [c EXCEPT !.ret = "ok",
                                      !.out = <<hyper_params, HdbscanResult(labels)>>]
    /\ UNCHANGED <<indexside, umap, model_file>>

\* n rows of one feature
PointRows(n) == Rows([i \in 1..n |-> <<i>>])

\* the arguments of the call
HdbWork ==
    [data : {PointRows(n) : n \in 0..HdbMaxSamples}
               \cup {Rows(<<<<0>>, <<1, 2>>>>), Num(7)},
     min_samples : 0..HdbMaxParam,
     min_cluster_size : 0..HdbMaxParam]

HdbInit == NoIndex /\ NoPipeline /\ work \in HdbWork

HdbNext == hdbscan_fit

\* one call of the density-clustering wrapper, for every choice of arguments
HdbSpec == HdbInit /\ [][HdbNext]_vars

(* -------------------------- clustering: kmeans ------------------------ *)
\* f64 values as exact fractions
FSub(x, y) == FAdd(x, [n |-> 0 - y.n, d |-> y.d])
FTimes(x, y) == Frac(x.n * y.n, x.d * y.d)
FLess(x, y) == x.n * y.d < y.n * x.d
FVec(row) == [j \in 1..Len(row) |-> Frac(row[j], 1)]

\* clustering.rs 272-278, squared: the order of two distances is the order
\* of their squares
RECURSIVE Dist2(_, _)
Dist2(a, b) ==
    IF a = <<>> \/ b = <<>> THEN FZero
    ELSE FAdd(FTimes(FSub(a[1], b[1]), FSub(a[1], b[1])), Dist2(Tail(a), Tail(b)))

\* clustering.rs 56-60, 166-170, 176-180: the first n_features values of a
\* row; a row that is too short yields nil, which is no number
RowF64(row, n_features) ==
    IF ~IsAry(row) \/ Len(row.ary) < n_features
    THEN [ok |-> FALSE, err |-> "TypeError", row |-> <<>>]
    ELSE ParseRow(SubSeq(row.ary, 1, n_features), <<>>)

RECURSIVE MatrixF64(_, _, _)
MatrixF64(rows, n_features, acc) ==
    IF rows = <<>> THEN [ok |-> TRUE, err |-> "", data |-> acc]
    ELSE LET p == RowF64(rows[1], n_features)
         IN  IF ~p.ok THEN [ok |-> FALSE, err |-> p.err, data |-> <<>>]
             ELSE MatrixF64(Tail(rows), n_features, Append(acc, FVec(p.row)))

\* an input check that does not compare k with the number of rows
KmeansInputAnyK(data, k) ==
    IF ~IsAry(data) THEN [ok |-> FALSE, err |-> "TypeError", data |-> <<>>]
    ELSE IF data.ary = <<>> THEN [ok |-> FALSE, err |-> "InvalidArgument", data |-> <<>>]
    ELSE IF ~IsAry(data.ary[1]) THEN [ok |-> FALSE, err |-> "TypeError", data |-> <<>>]
    ELSE MatrixF64(data.ary, Len(data.ary[1].ary), <<>>)

\* clustering.rs 32-61
KmeansInput(data, k) ==
    IF ~IsAry(data) THEN [ok |-> FALSE, err |-> "TypeError", data |-> <<>>]
    ELSE IF data.ary = <<>> THEN [ok |-> FALSE, err |-> "InvalidArgument", data |-> <<>>]
    ELSE IF ~IsAry(data.ary[1]) THEN [ok |-> FALSE, err |-> "TypeError", data |-> <<>>]
    ELSE IF k > Len(data.ary) THEN [ok |-> FALSE, err |-> "InvalidArgument", data |-> <<>>]
    ELSE MatrixF64(data.ary, Len(data.ary[1].ary), <<>>)

\* clustering.rs 229-239: the squared distance from row j to the nearest of
\* the centroids chosen so far
RECURSIVE NearestDist2(_, _)
NearestDist2(point, chosen) ==
    IF Len(chosen) = 1 THEN Dist2(point, chosen[1])
    ELSE LET rest == NearestDist2(point, Tail(chosen))
             d    == Dist2(point, chosen[1])
         IN  IF FLess(rest, d) THEN rest ELSE d

RECURSIVE FSeqSum(_)
FSeqSum(s) == IF s = <<>> THEN FZero ELSE FAdd(s[1], FSeqSum(Tail(s)))

\* clustering.rs 256-265: the first row at which the running sum reaches
\* rand_val
RECURSIVE Roulette(_, _, _, _)
Roulette(d2, rand_val, j, cumsum) ==
    LET c == FAdd(cumsum, d2[j])
    IN  IF ~FLess(c, rand_val) THEN j ELSE Roulette(d2, rand_val, j + 1, c)

\* rng.gen::<f64>() * total: the values of [0, total), in halves
RandVals(total) == {Frac(r, 2) : r \in 0..(2 * total.n - 1)}

\* clustering.rs 228-266: the rows the next centroid can be; i centroids are
\* chosen already
NextCentroids(data, chosen) ==
    LET i     == Len(chosen)
        d2    == [j \in 1..Len(data) |-> NearestDist2(data[j], chosen)]
        total == FSeqSum(d2)
    IN  IF total = FZero
        THEN {IF i < Len(data) THEN data[i + 1] ELSE data[1]}
        ELSE {data[Roulette(d2, rand_val, 1, FZero)] : rand_val \in RandVals(total)}

RECURSIVE PlusPlusFrom(_, _, _)
PlusPlusFrom(data, k, chosen) ==
    IF Len(chosen) = k THEN {chosen}
    ELSE UNION {PlusPlusFrom(data, k, Append(chosen, c)) : c \in NextCentroids(data, chosen)}

\* an initialization that stops after the first centroid
KmeansPlusPlusFirstOnly(data, k) == {<<data[first_idx]>> : first_idx \in 1..Len(data)}

\* clustering.rs 207-269: the centroid matrices the draws can lead to; the
\* first centroid is any row
kmeans_plusplus(data, k) ==
    UNION {PlusPlusFrom(data, k, <<data[first_idx]>>) : first_idx \in 1..Len(data)}

\* clustering.rs 74-83, 189-198: the loop over the centroids; min_dist is
\* <<>> for infinity; the result is the index from 0
RECURSIVE BestFrom(_, _, _, _, _)
BestFrom(point, centroids, j, min_dist, best_cluster) ==
    IF j > Len(centroids) THEN best_cluster
    ELSE LET dist == Dist2(point, centroids[j])
         IN  IF min_dist = <<>> \/ FLess(dist, min_dist[1])
             THEN BestFrom(point, centroids, j + 1, <<dist>>, j - 1)
             ELSE BestFrom(point, centroids, j + 1, min_dist, best_cluster)

\* the same loop with <= for <: among equals the last centroid wins
RECURSIVE BestFromLast(_, _, _, _, _)
BestFromLast(point, centroids, j, min_dist, best_cluster) ==
    IF j > Len(centroids) THEN best_cluster
    ELSE LET dist == Dist2(point, centroids[j])
         IN  IF min_dist = <<>> \/ ~FLess(min_dist[1], dist)
             THEN BestFromLast(point, centroids, j + 1, <<dist>>, j - 1)
             ELSE BestFromLast(point, centroids, j + 1, min_dist, best_cluster)

BestClusterLast(point, centroids) == BestFromLast(point, centroids, 1, <<>>, 0)

BestCluster(point, centroids) == BestFrom(point, centroids, 1, <<>>, 0)

\* clustering.rs 187-201: the label of every row
PredictLabels(data, centroids) ==
    [i \in 1..Len(data) |-> BestCluster(data[i], centroids)]

\* a centroid that becomes the first of its points
MeanOfFirst(data, S) == data[CHOOSE i \in S : \A j \in S : i <= j]

\* clustering.rs 98-109: sum / count over the rows of S
Mean(data, S) ==
    [c \in 1..Len(data[1]) |->
        LET sum == FSeqSum([n \in 1..Len(data) |-> IF n \in S THEN data[n][c] ELSE FZero])
        IN  Frac(sum.n, sum.d * Cardinality(S))]

\* an update that moves a centroid without points to the mean of all rows
UpdateCentroidsFillEmpty(data, labels, centroids) ==
    [j \in 1..Len(centroids) |->
        LET S == {i \in 1..Len(data) : labels[i] = j - 1}
        IN  IF S # {} THEN Mean(data, S) ELSE Mean(data, 1..Len(data))]

\* clustering.rs 97-111: a centroid without points stays where it is
UpdateCentroids(data, labels, centroids) ==
    [j \in 1..Len(centroids) |->
        LET S == {i \in 1..Len(data) : labels[i] = j - 1}
        IN  IF S # {} THEN Mean(data, S) ELSE centroids[j]]

\* an inertia that measures every point against its nearest centroid
InertiaNearest(data, labels, centroids) ==
    FSeqSum([i \in 1..Len(data) |-> NearestDist2(data[i], centroids)])

\* clustering.rs 117-122
Inertia(data, labels, centroids) ==
    FSeqSum([i \in 1..Len(data) |-> Dist2(data[i], centroids[labels[i] + 1])])

\* what a call on the clustering module does not touch
kmrest == <<index, dim, space, random_seed, callers, work, lock, th, disk, hist,
            umap, model_file>>

\* clustering.rs 64-66: the locals at the head of the loop; init, passes
\* (whether each assignment pass changed a label) and assigned_from (the
\* centroids the labels were last assigned from) are history
KmeansFrame(data, k, max_iter, centroids) ==
    [data |-> data, k |-> k, max_iter |-> max_iter, centroids |-> centroids,
     labels |-> [i \in 1..Len(data) |-> 0], iteration |-> 0, pc |-> "loop",
     init |-> centroids, passes |-> <<>>, assigned_from |-> <<>>]

\* clustering.rs 30-66: the checks, the conversion and the first centroids;
\* with k = 0 the write of centroid 0 is out of bounds and panics
KmeansCall ==
    /\ km = <<>>
    /\ LET p == KmeansInput(work.data, work.k)
           c == [NoCall EXCEPT !.op = "kmeans",
                               !.arg = [data |-> work.data, k |-> work.k,
                                        max_iter |-> work.max_iter]]
       IN  IF ~p.ok THEN ucall' = [c EXCEPT !.ret = p.err] /\ km' = km
           ELSE IF work.k = 0 THEN ucall' = [c EXCEPT !.ret = "Panic"] /\ km' = km
           ELSE /\ \E centroids \in kmeans_plusplus(p.data, work.k) :
                      km' = <<KmeansFrame(p.data, work.k, work.max_iter, centroids)>>
                /\ ucall' = c
    /\ UNCHANGED kmrest

\* clustering.rs 69-114: one turn of the loop
KmeansIteration ==
    /\ km # <<>> /\ km[1].pc = "loop" /\ km[1].iteration < km[1].max_iter
    /\ LET f       == km[1]
           best    == [i \in 1..Len(f.data) |-> BestCluster(f.data[i], f.centroids)]
           changed == \E i \in 1..Len(f.data) : f.labels[i] # best[i]
           g       == [f EXCEPT !.labels = best, !.passes = Append(@, changed),
                                !.assigned_from = f.centroids]
       IN  km' = <<IF ~changed /\ f.iteration > 0
                   THEN [g EXCEPT !.pc = "break"]
                   ELSE [g EXCEPT !.centroids = UpdateCentroids(f.data, best, f.centroids),
                                  !.iteration = @ + 1]>>
    /\ UNCHANGED <<kmrest, ucall>>

\* clustering.rs 116-140
KmeansReturn ==
    /\ km # <<>>
    /\ IF km[1].pc = "loop" THEN km[1].iteration >= km[1].max_iter
                           ELSE km[1].pc = "break"
    /\ LET f == km[1]
       IN  /\ ucall' = [ucall EXCEPT !.ret = "ok",
                                     !.out = [labels    |-> f.labels,
                                              centroids |-> f.centroids,
                                              inertia   |-> Inertia(f.data, f.labels, f.centroids)]]
           /\ km' = <<[f EXCEPT !.pc = "returned"]>>
    /\ UNCHANGED kmrest

\* clustering.rs 144-181
PredictInput(data, centroids) ==
    IF ~IsAry(data) \/ ~IsAry(centroids)
    THEN [ok |-> FALSE, err |-> "TypeError", data |-> <<>>, centroids |-> <<>>]
    ELSE IF data.ary = <<>>
    THEN [ok |-> FALSE, err |-> "InvalidArgument", data |-> <<>>, centroids |-> <<>>]
    ELSE IF ~IsAry(data.ary[1])
    THEN [ok |-> FALSE, err |-> "TypeError", data |-> <<>>, centroids |-> <<>>]
    ELSE LET n_features == Len(data.ary[1].ary)
             d == MatrixF64(data.ary, n_features, <<>>)
             c == MatrixF64(centroids.ary, n_features, <<>>)
         IN  IF ~d.ok \/ ~c.ok
             THEN [ok |-> FALSE, err |-> "TypeError", data |-> <<>>, centroids |-> <<>>]
             ELSE [ok |-> TRUE, err |-> "", data |-> d.data, centroids |-> c.data]

\* clustering.rs 144-204: no call of kmeans is under way
kmeans_predict ==
    /\ IF km = <<>> THEN TRUE ELSE km[1].pc = "returned"
    /\ \E centroids \in work.centroids :
          LET p == PredictInput(work.data, centroids)
              c == [NoCall EXCEPT !.op = "kmeans_predict",
                                  !.arg = [data |-> work.data, centroids |-> centroids]]
          IN  ucall' = IF ~p.ok THEN [c EXCEPT !.ret = p.err]
                       ELSE [c EXCEPT !.ret = "ok",
                                      !.out = PredictLabels(p.data, p.centroids)]
    /\ UNCHANGED <<kmrest, km>>

KmeansDatasets ==
    {Rows(<<<<0>>>>), Rows(<<<<0>>, <<1>>, <<2>>>>), Rows(<<<<0>>, <<0>>, <<10>>, <<10>>>>),
     Rows(<<<<0>>, <<10>>, <<20>>>>), Rows(<<<<0>>, <<2>>, <<6>>, <<20>>>>),
     Rows(<<<<0, 0>>, <<0, 1>>, <<10, 10>>, <<10, 11>>>>),
     Rows(<<>>), Ary(<<Num(7)>>), Num(7), Ary(<<NumRow(<<0>>), Ary(<<Str("x")>>)>>),
     Rows(<<<<0, 1>>, <<2>>>>)}

KmeansKs == {0, 1, 2, 3}
MaxIterations == {0, 1, 2, 10}

CentroidSets ==
    {Rows(<<>>), Rows(<<<<0>>, <<10>>>>), Rows(<<<<5>>, <<5>>, <<0>>>>),
     Rows(<<<<10, 10>>, <<0, 0>>, <<0, 0>>>>), Num(7)}

\* the arguments of the calls; predict takes any of the centroid matrices
KmeansWork ==
    [data : KmeansDatasets, k : KmeansKs, max_iter : MaxIterations,
     centroids : {CentroidSets}]

KmeansInit == NoIndex /\ NoPipeline /\ work \in KmeansWork

KmeansNext == KmeansCall \/ KmeansIteration \/ KmeansReturn \/ kmeans_predict

\* one fit, and predictions before and after it
KmeansSpec == KmeansInit /\ [][KmeansNext]_vars

(* ------------------------------- claims ------------------------------- *)
Registered(t) ==
    \/ th[t].op = "add_item" /\ th[t].pc \in {"ai_meta", "ai_hnsw"}
    \/ th[t].op = "add_batch" /\ th[t].ents # <<>> /\ th[t].pc # "done"

\* C1: under any interleaving of insert and insert_batch calls, no two
\* registered entries share an internal id and no label is accepted twice.
C1_UniqueIdsAndLabels ==
    \A i, j \in 1..Len(regs) :
        i # j => regs[i].id # regs[j].id /\ regs[i].label # regs[j].label

\* two inserts in flight at once, both past their registration
C1_Witness ==
    \E t, u \in Threads : t # u /\ Registered(t) /\ Registered(u)

\* C2: no state that another operation can observe (the label and metadata
\* locks are free) has a registered label and id without its metadata record.
C2_RegistrationAtomic ==
    (lock["label_to_id"] = Free /\ lock["metadata_store"] = Free)
        => \A l \in DOMAIN label_to_id : label_to_id[l] \in DOMAIN metadata_store

InFlight(t) == th[t].pc \notin {"idle", "done"}
NoDeadlock ==
    (\E t \in Threads : InFlight(t))
        => \E t \in Threads : InFlight(t) /\ ENABLED (Step(t) \/ SaveStep(t))
SearchOps == {"search", "search_with_metadata"}

\* C3: when row j of a batch is rejected as a duplicate, the rows before it
\* stay committed: counted by size, found by search, labels registered.
C3_PrefixStaysCommitted ==
    \A t \in Threads :
        (th[t].op = "add_batch" /\ th[t].pc = "done" /\ th[t].ret = "DuplicateLabel")
            => \A n \in 1..Len(th[t].ents) :
                  /\ th[t].ents[n].id \in DOMAIN metadata_store
                  /\ \E m \in 1..Len(hnsw) : hnsw[m].d_id = th[t].ents[n].id
                  /\ th[t].ents[n].label \in DOMAIN label_to_id

\* C4: on a fresh index the first entry gets internal id 0, every later entry
\* a strictly greater id than all earlier ones, and no id is given twice.
C4_IdsFromZeroIncreasing ==
    /\ Len(regs) > 0 => regs[1].id = 0
    /\ \A i, j \in 1..Len(regs) : i < j => regs[i].id < regs[j].id

AddItemDone(t) == th[t].op = "add_item" /\ th[t].pc = "done" /\ pre # <<>>

\* C5: an insert of a vector of another length than dim fails with
\* DimensionMismatch and changes nothing; an insert of a vector of length dim
\* with no label, or with a label not yet in the index, succeeds and raises
\* size by exactly 1.
C5_InsertOutcome ==
    \A t \in Threads :
        AddItemDone(t) =>
            /\ Len(th[t].vec) # dim
                  => th[t].ret = "DimensionMismatch" /\ Snapshot = pre[1]
            /\ (/\ Len(th[t].vec) = dim
                /\ ~th[t].explicit \/ th[t].label \notin DOMAIN pre[1].label_to_id)
                  => /\ th[t].ret = "ok"
                     /\ StoreLen(metadata_store) = StoreLen(pre[1].metadata_store) + 1

DuplicateAttempt(t) ==
    AddItemDone(t) /\ th[t].explicit /\ th[t].label \in DOMAIN pre[1].label_to_id

\* C6 as stated: an insert with an explicit label that is already present
\* fails with DuplicateLabel and leaves the whole index unchanged.
C6_DuplicateRejected ==
    \A t \in Threads :
        DuplicateAttempt(t) => th[t].ret = "DuplicateLabel" /\ Snapshot = pre[1]

\* C6 as amended: an insert with an explicit label that is already present
\* leaves the whole index unchanged and fails: with DuplicateLabel when the
\* vector has length dim, with DimensionMismatch when it has another length.
C6_DuplicateRejectedAfterLengthCheck ==
    \A t \in Threads :
        DuplicateAttempt(t) =>
            /\ Snapshot = pre[1]
            /\ th[t].ret = IF Len(th[t].vec) = dim THEN "DuplicateLabel"
                           ELSE "DimensionMismatch"

\* a duplicate explicit label was rejected on an index that holds entries
C6_Witness ==
    \E t \in Threads :
        DuplicateAttempt(t) /\ th[t].ret = "DuplicateLabel" /\ Len(hnsw) > 0

\* what search returns for query q and k on index ix
SearchLabels(ix, q, k) ==
    LET res == Assemble(HnswSearch(ix.hnsw, q, k, ix.ef_search), ix.metadata_store)
    IN  [n \in 1..Len(res) |-> res[n].label]

Queries == {q \in VecPool : Len(q) = dim}
LoadDone(t) == th[t].op = "load" /\ th[t].pc = "done" /\ th[t].ret = "ok" /\ saved # <<>>

SearchDone(t) == th[t].op \in {"search", "search_with_metadata"} /\ th[t].pc = "done" /\ th[t].ret = "ok"

\* C8: search on an index of N entries returns exactly min(k, N) labels in
\* order of non-decreasing distance; with k > N it returns all N.
C8_SearchCountAndOrder ==
    \A t \in Threads :
        SearchDone(t) =>
            /\ Len(th[t].out) = Min(th[t].k, StoreLen(metadata_store))
            /\ \A n \in 1..(Len(th[t].out) - 1) :
                  th[t].out[n].distance <= th[t].out[n + 1].distance

\* a search with k above the size returned every entry, at different distances
C8_Witness ==
    \E t \in Threads :
        /\ SearchDone(t)
        /\ th[t].k > StoreLen(metadata_store)
        /\ Len(th[t].out) >= 2
        /\ th[t].out[1].distance < th[t].out[Len(th[t].out)].distance

C10_SeededBatchIsSerial ==
    \A t \in Threads :
        (/\ th[t].op = "add_batch" /\ th[t].pc = "done" /\ th[t].ret = "ok"
         /\ th[t].pts # <<>> /\ random_seed # <<>>)
            => th[t].path = "serial"

\* C11: a search given ef = e searches the graph with breadth e, and when it
\* has returned e is the index's breadth, also with other callers at work.
C11_OverrideUsedAndKept ==
    \A t \in Threads :
        (th[t].op = "search" /\ th[t].ef # <<>>) =>
            /\ th[t].pc \in {"sr_meta", "done"} /\ th[t].ret # "DimensionMismatch"
                  => th[t].ef_arg = th[t].ef
            /\ th[t].pc = "done" /\ th[t].ret = "ok" /\ callers = {t}
                  => ef_search = th[t].ef[1]


BatchDone(t) == th[t].op = "add_batch" /\ th[t].pc = "done" /\ pre # <<>>

\* C12: insert_batch rejects a labels list of another length than the batch,
\* shorter or longer, and labels that repeat inside the batch or are already
\* in the index.
C12_BatchLabelsChecked ==
    \A t \in Threads :
        (BatchDone(t) /\ th[t].labels # <<>>) =>
            LET ls == th[t].labels[1]
            IN  (\/ Len(ls) # Len(th[t].rows)
                 \/ \E i, j \in 1..Len(ls) : i # j /\ ls[i] = ls[j]
                 \/ \E i \in 1..Len(ls) : ls[i] \in DOMAIN pre[1].label_to_id)
                    => th[t].ret # "ok"


GraphIds == {hnsw[m].d_id : m \in 1..Len(hnsw)}
LabelIds == {label_to_id[l] : l \in DOMAIN label_to_id}
LoadReturned(t) ==
    /\ th[t].op = "load" /\ th[t].pc = "done"
    /\ \A u \in Threads \ {t} : th[u].pc = "idle"

\* C13: load returns an index only when the sidecar and the graph blob are
\* both present and describe the same entries; when either is missing it
\* fails with PersistenceIOError and returns no index.
C13_LoadChecksArtifacts ==
    \A t \in Threads :
        LoadReturned(t) =>
            /\ th[t].ret = "ok" =>
                  /\ disk.sidecar # <<>> /\ disk.graph # <<>>
                  /\ GraphIds = DOMAIN metadata_store
                  /\ LabelIds = DOMAIN metadata_store
            /\ (disk.sidecar = <<>> \/ disk.graph = <<>>)
                  => th[t].ret = "PersistenceIOError"


GrowsOnly ==
    /\ StoreLen(metadata_store') >= StoreLen(metadata_store)
    /\ \A id \in DOMAIN metadata_store :
          id \in DOMAIN metadata_store' /\ metadata_store'[id] = metadata_store[id]
    /\ \A l \in DOMAIN label_to_id :
          l \in DOMAIN label_to_id' /\ label_to_id'[l] = label_to_id[l]
    /\ Len(hnsw') >= Len(hnsw) /\ SubSeq(hnsw', 1, Len(hnsw)) = hnsw
EmptyDone(t) == th[t].op = "empty" /\ th[t].pc = "done"

\* C14: size never decreases, an entry once inserted keeps its label, internal
\* id and metadata, and empty answers true exactly when size is 0.
C14_GrowsOnly ==
    /\ [][GrowsOnly]_vars
    /\ [](\A t \in Threads :
            EmptyDone(t) => (th[t].out[1] <=> StoreLen(metadata_store) = 0))

\* empty answered false on an index of two entries, one of them with metadata
C14_Witness ==
    \E t \in Threads :
        /\ EmptyDone(t) /\ th[t].out = <<FALSE>>
        /\ StoreLen(metadata_store) >= 2
        /\ \E id \in DOMAIN metadata_store : metadata_store[id].metadata # <<>>


NewDone(t) == th[t].op = "new" /\ th[t].pc = "done"
NoIndexYet == callers = {} /\ dim = 0
Unimplemented == {"cosine", "inner_product"}
Recognized == {"euclidean"} \cup Unimplemented

\* C15 as stated: create fails and yields no index when dim is 0; it fails with
\* UnsupportedCapability for cosine and inner_product and with another error,
\* InvalidArgument, for an unrecognized space name; only euclidean yields an
\* index.
C15_CreateChecks ==
    \A t \in Threads :
        NewDone(t) =>
            /\ work.dim = <<0>> => th[t].ret # "ok" /\ NoIndexYet
            /\ (work.space # <<>> /\ work.space[1] \in Unimplemented)
                  => th[t].ret = "UnsupportedCapability" /\ NoIndexYet
            /\ (work.space # <<>> /\ work.space[1] \notin Recognized)
                  => /\ th[t].ret = "InvalidArgument" /\ NoIndexYet
                     /\ th[t].out # <<"RuntimeError">>
            /\ th[t].ret = "ok" => work.space \in {<<>>, <<"euclidean">>}

\* C15 as amended: the space is looked at only after dim has passed its
\* checks; with dim 0 create fails with InvalidDimension whatever the space.
C15_CreateChecksDimFirst ==
    \A t \in Threads :
        NewDone(t) =>
            /\ work.dim = <<0>> => th[t].ret = "InvalidDimension" /\ NoIndexYet
            /\ (/\ work.dim # <<>> /\ work.dim[1] > 0
                /\ work.space # <<>> /\ work.space[1] \in Unimplemented)
                  => /\ th[t].ret = "UnsupportedCapability" /\ NoIndexYet
                     /\ th[t].out = <<"RuntimeError">>
            /\ (/\ work.dim # <<>> /\ work.dim[1] > 0
                /\ work.space # <<>> /\ work.space[1] \notin Recognized)
                  => /\ th[t].ret = "InvalidArgument" /\ NoIndexYet
                     /\ th[t].out = <<"ArgumentError">>
            /\ th[t].ret = "ok" =>
                  /\ work.space \in {<<>>, <<"euclidean">>}
                  /\ space = "Euclidean" /\ dim = work.dim[1] /\ callers = {t}

\* create refused cosine on a positive dim
C15_Witness ==
    \E t \in Threads :
        /\ NewDone(t) /\ th[t].ret = "UnsupportedCapability"
        /\ work.dim = <<2>> /\ work.space = <<"cosine">>


Fitted == umap # <<>> /\ umap[1].training_data # <<>> /\ umap[1].training_embeddings # <<>>

\* C16: on a pipeline without training state transform and save_model fail
\* with ModelNotFitted; after a successful fit_transform or load_model the
\* pipeline has training state and they do not fail for that reason.
C16_ModelNotFitted ==
    /\ ucall.op \in {"transform", "save_model"}
          => (ucall.ret = "ModelNotFitted" <=> ~Fitted)
    /\ (ucall.op \in {"fit_transform", "load_model"} /\ ucall.ret = "ok") => Fitted

\* save_model refused a pipeline whose only fit had failed in the solver
C16_Witness ==
    /\ ucall.op = "save_model" /\ ucall.ret = "ModelNotFitted"
    /\ umap # <<>> /\ umap[1].random_seed = <<FallbackSeed>>

FitFailed(c) == c.op = "fit_transform" /\ c.ret # "ok"

\* C17: a fit_transform that fails, for whatever reason, leaves the stored
\* training vectors and embeddings as they were before the call.
C17_FailedFitKeepsModel ==
    [][FitFailed(ucall') => umap' = umap]_vars

\* the solver failed on new data given to a pipeline that was already trained
C17_Witness ==
    /\ FitFailed(ucall) /\ ucall.ret = "EmbeddingFailed"
    /\ Fitted
    /\ FitInput(ucall.arg).data # umap[1].training_data[1]


Dist(u, point, i) == euclidean_distance(point, u.training_data[1][i])

\* the sets of min(n_neighbors, size) training vectors none of which is
\* farther from the point than a vector left out
NearestSets(u, point) ==
    LET N == Len(u.training_data[1])
    IN  {S \in SUBSET (1..N) :
            /\ Cardinality(S) = Min(u.n_neighbors, N)
            /\ \A i \in S, j \in (1..N) \ S : Dist(u, point, i) <= Dist(u, point, j)}

RECURSIVE FSum(_, _)
FSum(f, S) ==
    IF S = {} THEN FZero
    ELSE LET i == CHOOSE x \in S : TRUE IN FAdd(f[i], FSum(f, S \ {i}))

\* weight(i) = 1 / (distance(i) + 0.001), divided by the sum over the set
NormalizedWeights(u, point, S) ==
    LET w == [i \in S |-> Weight(Dist(u, point, i))]
    IN  [i \in S |-> FDiv(w[i], FSum(w, S))]

WeightedAverage(u, point, S) ==
    LET nw == NormalizedWeights(u, point, S)
    IN  [c \in 1..u.n_components |->
            FSum([i \in S |-> FMul(nw[i], u.training_embeddings[1][i][c])], S)]

TransformDone == ucall.op = "transform" /\ ucall.ret = "ok"

\* C18: each output row of transform is the average of the stored embeddings
\* of the min(n_neighbors, training_set_size) training vectors nearest to the
\* input row, with weights 1 / (distance + 0.001) normalized to sum to 1.
C18_WeightedNearest ==
    TransformDone =>
        LET u      == umap[1]
            points == TransformRows(ucall.arg.ary, <<>>).data
        IN  /\ Len(ucall.out) = Len(points)
            /\ \A n \in 1..Len(points) :
                  \E S \in NearestSets(u, points[n]) :
                      /\ FSum(NormalizedWeights(u, points[n], S), S) = Frac(1, 1)
                      /\ ucall.out[n] = WeightedAverage(u, points[n], S)

\* two neighbours at different distances and with different embeddings went
\* into one output row, which is neither of the two embeddings
C18_Witness ==
    /\ TransformDone
    /\ Len(umap[1].training_data[1]) = 2 /\ umap[1].n_neighbors = 2
    /\ \E n \in 1..Len(ucall.out) : ucall.out[n][1].d > 1

SameModel(a, b) ==
    /\ a.n_components = b.n_components
    /\ a.n_neighbors = b.n_neighbors
    /\ a.nb_grad_batch = b.nb_grad_batch
    /\ a.nb_sampling_by_edge = b.nb_sampling_by_edge
    /\ a.training_embeddings = b.training_embeddings
    /\ a.training_data = b.training_data

LoadModelDone == ucall.op = "load_model" /\ ucall.ret = "ok"

\* C20: the pipeline load_model returns has the component count, neighbor
\* count, solver parameters, embeddings and training vectors of the pipeline
\* save_model wrote, has no random_seed, and transforms every input as the
\* saved pipeline does.
C20_ModelRoundTrip ==
    LoadModelDone =>
        /\ SameModel(umap[1], model_file[2])
        /\ umap[1].random_seed = <<>>
        /\ \A data \in work.inputs :
              TransformResult(umap[1], data) = TransformResult(model_file[2], data)

\* the loaded pipeline came from a seeded one with two training vectors and
\* parameters that are not the defaults
C20_Witness ==
    /\ LoadModelDone
    /\ model_file[2].random_seed = <<7>>
    /\ model_file[2].n_neighbors # DefaultNNeighbors
    /\ Len(umap[1].training_data[1]) = 2

HdbscanCalled == ucall.op = "hdbscan_fit"

\* C27: for n_samples >= 1 the wrapper hands the clusterer
\* min_samples = max(1, min(min_samples, n_samples - 1)) and
\* min_cluster_size = max(2, min(min_cluster_size, n_samples)) and raises no
\* error of its own; for 5 samples and both requested as 10 these are 4 and 5.
C27_Clamp ==
    HdbscanCalled =>
        LET a == ucall.arg
            p == ruby_array_to_vec_vec_f64(a.data)
            n == Len(p.data)
        IN  (p.ok /\ n >= 1) =>
               /\ ucall.ret \in {"ok", "ClusteringFailed"}
               /\ ucall.out[1].min_samples =
                     (IF a.min_samples <= n - 1
                      THEN (IF a.min_samples >= 1 THEN a.min_samples ELSE 1)
                      ELSE (IF n - 1 >= 1 THEN n - 1 ELSE 1))
               /\ ucall.out[1].min_cluster_size =
                     (IF a.min_cluster_size <= n
                      THEN (IF a.min_cluster_size >= 2 THEN a.min_cluster_size ELSE 2)
                      ELSE (IF n >= 2 THEN n ELSE 2))
               /\ (n = 5 /\ a.min_samples = 10 /\ a.min_cluster_size = 10)
                     => (ucall.out[1].min_samples = 4 /\ ucall.out[1].min_cluster_size = 5)

\* 5 samples, both parameters requested as 10, and the clusterer ran
C27_Witness ==
    /\ HdbscanCalled /\ ucall.ret = "ok"
    /\ ucall.arg.data = PointRows(5)
    /\ ucall.arg.min_samples = 10 /\ ucall.arg.min_cluster_size = 10
    /\ ucall.out[1] = [min_cluster_size |-> 5, min_samples |-> 4]

KmeansReturned == ucall.op = "kmeans" /\ ucall.ret = "ok"

\* C21: every fit makes at least one full assignment pass before it returns,
\* and it stops at the first pass after the first one that changed no
\* assignment, or after max_iterations passes, whichever comes first.
C21_OnePassThenStop ==
    KmeansReturned =>
        LET p == km[1].passes
            n == Len(p)
        IN  /\ n >= 1
            /\ n <= km[1].max_iter
            /\ n < km[1].max_iter => (n >= 2 /\ ~p[n])
            /\ \A i \in 2..(n - 1) : p[i]

\* label is the index of a centroid nearest to the point, the lowest such
IsNearestLowest(point, centroids, label) ==
    /\ label \in 0..(Len(centroids) - 1)
    /\ \A j \in 1..Len(centroids) :
          /\ ~FLess(Dist2(point, centroids[j]), Dist2(point, centroids[label + 1]))
          /\ j < label + 1 =>
                FLess(Dist2(point, centroids[label + 1]), Dist2(point, centroids[j]))

PredictDone == ucall.op = "kmeans_predict" /\ ucall.ret = "ok"

\* C22: an assignment pass of fit and predict give every point the index of a
\* centroid at minimum distance, the lowest index among equals; predict keeps
\* no state.
C22_NearestLowestIndex ==
    /\ [](/\ (km # <<>> /\ km[1].passes # <<>>) =>
                \A i \in 1..Len(km[1].data) :
                    IsNearestLowest(km[1].data[i], km[1].assigned_from, km[1].labels[i])
          /\ PredictDone =>
                LET p == PredictInput(ucall.arg.data, ucall.arg.centroids)
                IN  \A i \in 1..Len(p.data) :
                        IsNearestLowest(p.data[i], p.centroids, ucall.out[i]))
    /\ [][ucall'.op = "kmeans_predict" => km' = km]_vars

DistinctRows(data) == {data[i] : i \in 1..Len(data)}

\* C23: when the data has more than k distinct points the first centroids
\* are k pairwise distinct points, whatever the random draws.
C23_DistinctCentroids ==
    (km # <<>> /\ Cardinality(DistinctRows(km[1].data)) > km[1].k) =>
        \A a, b \in 1..km[1].k : a # b => km[1].init[a] # km[1].init[b]

\* C24: on data made of k clusters of identical points (k distinct points),
\* fit with that k returns inertia 0 and gives equal points equal labels,
\* whatever the random draws.
C24_IdenticalClusters ==
    (KmeansReturned /\ Cardinality(DistinctRows(km[1].data)) = km[1].k) =>
        /\ ucall.out.inertia = FZero
        /\ \A i, j \in 1..Len(km[1].data) :
              km[1].data[i] = km[1].data[j] => ucall.out.labels[i] = ucall.out.labels[j]

ExampleRun ==
    /\ KmeansReturned
    /\ ucall.arg.data = Rows(<<<<0, 0>>, <<0, 1>>, <<10, 10>>, <<10, 11>>>>)
    /\ ucall.arg.k = 2 /\ ucall.arg.max_iter = 10

ExampleClusters ==
    /\ ucall.out.labels[1] = ucall.out.labels[2]
    /\ ucall.out.labels[3] = ucall.out.labels[4]
    /\ ucall.out.labels[1] # ucall.out.labels[3]
    /\ {ucall.out.centroids[1], ucall.out.centroids[2]} =
          {<<Frac(0, 1), Frac(1, 2)>>, <<Frac(10, 1), Frac(21, 2)>>}

\* C25: for [[0,0],[0,1],[10,10],[10,11]], k = 2, max_iterations = 10, every
\* run pairs points 0,1 and points 2,3, with centroids [0,0.5] and [10,10.5]
\* and inertia 0.5.
C25_Example ==
    ExampleRun => (ExampleClusters /\ ucall.out.inertia = Frac(1, 2))

\* C25 with the inertia the four squared distances of 0.25 add up to: 1.0
C25_ExampleInertiaOne ==
    ExampleRun => (ExampleClusters /\ ucall.out.inertia = Frac(1, 1))

\* the example converged by an early stop after its centroids had moved
C25_Witness ==
    /\ ExampleRun /\ ExampleClusters
    /\ Len(km[1].passes) < 10
    /\ km[1].centroids # km[1].init

KmeansFailed == ucall.op = "kmeans" /\ ucall.ret \notin {"", "ok"}

\* C26: fit fails with InvalidArgument, computing nothing, when the input
\* has no rows or when k is greater than the number of rows.
C26_RejectsBadSizes ==
    (ucall.op = "kmeans" /\ IsAry(ucall.arg.data)
        /\ (Len(ucall.arg.data.ary) = 0 \/ ucall.arg.k > Len(ucall.arg.data.ary)))
    => (ucall.ret = "InvalidArgument" /\ km = <<>>)

\* C26 for an input whose first element is a row: an input without rows
\* fails with InvalidArgument, and so does k greater than the number of rows
\* when the first element is an array
C26_RejectsBadSizesOfRows ==
    (ucall.op = "kmeans" /\ IsAry(ucall.arg.data)
        /\ \/ Len(ucall.arg.data.ary) = 0
           \/ (ucall.arg.k > Len(ucall.arg.data.ary) /\ IsAry(ucall.arg.data.ary[1])))
    => (ucall.ret = "InvalidArgument" /\ km = <<>>)

\* k = 3 was refused for two rows, one of them not numeric
C26_Witness ==
    /\ KmeansFailed /\ ucall.ret = "InvalidArgument" /\ km = <<>>
    /\ ucall.arg.k = 3
    /\ ucall.arg.data = Ary(<<NumRow(<<0>>), Ary(<<Str("x")>>)>>)

\* the pipeline's neighbor count at transform (embedder.rs 360)
NeighborCount(u) == Min(u.n_neighbors, Len(u.training_data[1]))

\* C29: every pipeline new produces has n_components >= 1 and
\* n_neighbors >= 1, so that a fitted one averages over at least one neighbor
\* in transform.
C29_PositiveConfiguration ==
    umap # <<>> =>
        /\ umap[1].n_components >= 1
        /\ umap[1].n_neighbors >= 1
        /\ Fitted => NeighborCount(umap[1]) >= 1

FAbs(x) == [n |-> IF x.n < 0 THEN 0 - x.n ELSE x.n, d |-> x.d]
FLeq(x, y) == ~FLess(y, x)

\* transform has answered for the very rows the pipeline was fitted on
SameRowsTransformed ==
    /\ TransformDone /\ Fitted
    /\ FitInput(ucall.arg).ok
    /\ FitInput(ucall.arg).data = umap[1].training_data[1]

\* how far output row i is from the stored embedding of row i, component c
OwnDeviation(i, c) ==
    FAbs(FSub(ucall.out[i][c], Frac(umap[1].training_embeddings[1][i][c], 1)))

PullOfOthers(i, c) ==
    LET train == umap[1].training_data[1]
        emb   == umap[1].training_embeddings[1]
    IN  FSeqSum([j \in 1..Len(train) |->
            IF j = i THEN FZero
            ELSE FMul(Frac(1, WeightEpsilonInv * euclidean_distance(train[i], train[j]) + 1),
                      IF emb[j][c] < emb[i][c] THEN emb[i][c] - emb[j][c]
                      ELSE emb[j][c] - emb[i][c])])

OccursOnce(i) ==
    \A j \in 1..Len(umap[1].training_data[1]) :
        j # i => umap[1].training_data[1][j] # umap[1].training_data[1][i]

C28_ErrorsPropagate ==
    \A t \in Threads : (th[t].pc = "done" /\ th[t].odd # {}) => th[t].ret # "ok"

\* the fit stopped early: a pass after the first changed no label
Converged == KmeansReturned /\ Len(km[1].passes) >= 2 /\ ~km[1].passes[Len(km[1].passes)]

\* the fit stopped because iteration had reached max_iterations
Exhausted == KmeansReturned /\ ~Converged

\* every returned label is the lowest index of a nearest returned centroid,
\* and predict on the rows with the returned centroids gives the same labels
LabelsFitCentroids ==
    /\ \A i \in 1..Len(km[1].data) :
          IsNearestLowest(km[1].data[i], ucall.out.centroids, ucall.out.labels[i])
    /\ PredictLabels(km[1].data, ucall.out.centroids) = ucall.out.labels

PassesValidation ==
    ucall.op = "kmeans" /\ KmeansInput(ucall.arg.data, ucall.arg.k).ok

\* the result has a label in 0..k-1 for every row and k centroids
WellShaped ==
    /\ Len(ucall.out.labels) = Len(ucall.arg.data.ary)
    /\ \A i \in 1..Len(ucall.out.labels) : ucall.out.labels[i] \in 0..(ucall.arg.k - 1)
    /\ Len(ucall.out.centroids) = ucall.arg.k

\* C35: every fit call that passes validation, k = 0 and max_iterations = 0
\* included, returns normally, with n_samples labels in 0..k-1 and k centroids.
C35_ValidatedFitReturns ==
    PassesValidation =>
        /\ ucall.ret \in {"", "ok"}
        /\ ucall.ret = "ok" => WellShaped

\* C35 for k >= 1: the call returns normally with n_samples labels in 0..k-1
\* and k centroids; with k = 0 it does not return normally
C35_ValidatedFitReturnsForPositiveK ==
    PassesValidation =>
        /\ ucall.arg.k >= 1 => (ucall.ret \in {"", "ok"} /\ (ucall.ret = "ok" => WellShaped))
        /\ ucall.arg.k = 0 => ucall.ret = "Panic"

\* a fit without passes returned three centroids and four labels
C35_Witness ==
    /\ KmeansReturned /\ WellShaped
    /\ ucall.arg.k = 3 /\ ucall.arg.max_iter = 0
    /\ Len(ucall.out.labels) = 4

\* the rows an assignment gives to centroid j (from 1)
Assigned(labels, j) == {i \in 1..Len(labels) : labels[i] = j - 1}

\* centroid is the mean of the rows of S: count * centroid = sum, by component
IsMeanOf(centroid, data, S) ==
    \A c \in 1..Len(centroid) :
        FMul(centroid[c], Cardinality(S)) =
            FSeqSum([n \in 1..Len(data) |-> IF n \in S THEN data[n][c] ELSE FZero])

\* C36: in each update step a centroid with at least one assigned point
\* becomes the mean of its assigned points, and a centroid without assigned
\* points keeps its previous value.
C36_UpdateStep ==
    [][(km # <<>> /\ km' # <<>> /\ km'[1].iteration = km[1].iteration + 1) =>
          \A j \in 1..km[1].k :
              IF Assigned(km'[1].labels, j) # {}
              THEN IsMeanOf(km'[1].centroids[j], km[1].data, Assigned(km'[1].labels, j))
              ELSE km'[1].centroids[j] = km[1].centroids[j]]_vars

\* after an update one centroid has no point and another has moved to the
\* mean of more than one point
C36_Witness ==
    /\ km # <<>> /\ km[1].iteration >= 1
    /\ \E j \in 1..km[1].k : Assigned(km[1].labels, j) = {}
    /\ \E j \in 1..km[1].k :
          /\ Cardinality(Assigned(km[1].labels, j)) >= 2
          /\ km[1].centroids[j] # km[1].init[j]

\* the sum over the points of the squared distance, component by component,
\* to the returned centroid of the returned label
RECURSIVE SquaredDistanceSum(_, _, _, _)
SquaredDistanceSum(data, labels, centroids, i) ==
    IF i > Len(data) THEN FZero
    ELSE LET centroid == centroids[labels[i] + 1]
             sq(c)    == FTimes(FSub(data[i][c], centroid[c]), FSub(data[i][c], centroid[c]))
         IN  FAdd(FSeqSum([c \in 1..Len(data[i]) |-> sq(c)]),
                  SquaredDistanceSum(data, labels, centroids, i + 1))

HdbSamples == Len(ruby_array_to_vec_vec_f64(ucall.arg.data).data)

C31_GraphIdsHaveMetadata ==
    /\ GraphIds \subseteq DOMAIN metadata_store
    /\ \A t \in Threads :
          (th[t].op = "search" /\ th[t].pc = "done" /\ th[t].ret = "ok")
              => Len(th[t].out) = Len(th[t].nb)

\* a search returned a hit while another caller's insert had stored its
\* metadata record and not yet reached the graph
C31_Witness ==
    \E t, u \in Threads :
        /\ th[t].op = "search" /\ th[t].pc = "done" /\ Len(th[t].out) >= 1
        /\ th[u].pc \in {"ai_hnsw", "ab_hnsw"}
        /\ GraphIds # DOMAIN metadata_store

NoInsertInFlight ==
    \A t \in Threads : th[t].op \in {"add_item", "add_batch"} => ~InFlight(t)

\* C32: whenever no insert is in flight the label table, the metadata table
\* and the graph hold the same internal ids, each below the id counter, and
\* size is the number of registered labels.
C32_TablesAgree ==
    NoInsertInFlight =>
        /\ LabelIds = DOMAIN metadata_store
        /\ GraphIds = DOMAIN metadata_store
        /\ \A id \in LabelIds \cup GraphIds \cup DOMAIN metadata_store : id < current_id
        /\ StoreLen(metadata_store) = Cardinality(DOMAIN label_to_id)

LoadedIds == {loaded[1][l] : l \in DOMAIN loaded[1]}

\* an insert under a label the last load brought back has ended
LoadedLabelAttempt(t) ==
    /\ loaded # <<>>
    /\ th[t].op = "add_item" /\ th[t].pc = "done" /\ th[t].explicit
    /\ th[t].label \in DOMAIN loaded[1]

\* load brings back the label table and the counter of the save, and no
\* entry registered since the load has an id of a loaded entry
LoadKeepsLabelsAndCounter ==
    /\ \A t \in Threads :
          LoadDone(t) => /\ loaded = <<saved[1].label_to_id>>
                         /\ label_to_id = saved[1].label_to_id
                         /\ current_id = saved[1].current_id
    /\ loaded # <<>> =>
          \A i \in 1..Len(regs) :
              regs[i].label \notin DOMAIN loaded[1] => regs[i].id \notin LoadedIds

\* C33: after save then load, an insert under a label that was present at
\* save time fails with DuplicateLabel, and every later successful insert
\* gets an internal id that no loaded entry uses.
C33_LoadedLabelsAndIdsKept ==
    /\ LoadKeepsLabelsAndCounter
    /\ \A t \in Threads : LoadedLabelAttempt(t) => th[t].ret = "DuplicateLabel"

\* C33 with the order of the checks of insert: DuplicateLabel when the
\* vector has the length dim, DimensionMismatch when it has not
C33_LoadedLabelsAndIdsKeptAfterLengthCheck ==
    /\ LoadKeepsLabelsAndCounter
    /\ \A t \in Threads :
          LoadedLabelAttempt(t) =>
              th[t].ret = IF Len(th[t].vec) = dim THEN "DuplicateLabel"
                          ELSE "DimensionMismatch"

\* after a load an insert under a new label has succeeded and one under a
\* loaded label has just been refused
C33_Witness ==
    /\ loaded # <<>> /\ DOMAIN loaded[1] # {}
    /\ Len(regs) > Cardinality(DOMAIN loaded[1])
    /\ \E t \in Threads : LoadedLabelAttempt(t) /\ th[t].ret = "DuplicateLabel"

(* ------------------- C39: how the fit inserts the rows ----------------- *)
Inserted == ucall.op = "fit_transform" /\ ucall.insert # ""
HasSeed == umap # <<>> /\ umap[1].random_seed # <<>>

\* C39: a fit_transform that got as far as its private index inserted the rows
\* serially when the pipeline has a seed, and in parallel only when the
\* pipeline has no seed
C39_SeededFitIsSerial ==
    Inserted => /\ HasSeed => ucall.insert = "serial"
                /\ ucall.insert = "parallel" => ~HasSeed

\* a seeded pipeline has fitted a dataset
C39_Witness == Inserted /\ HasSeed /\ ucall.ret = "ok"

(* ------------- C40: the training vectors and their embeddings ---------- *)
\* the two cells of the pipeline; <<>> each before there is a pipeline
TrainingData == IF umap = <<>> THEN <<>> ELSE umap[1].training_data
TrainingEmbeddings == IF umap = <<>> THEN <<>> ELSE umap[1].training_embeddings

\* both cells empty, or both full with one embedding per training vector
Paired ==
    \/ TrainingData = <<>> /\ TrainingEmbeddings = <<>>
    \/ /\ TrainingData # <<>> /\ TrainingEmbeddings # <<>>
       /\ Len(TrainingData[1]) = Len(TrainingEmbeddings[1])

\* the cells now hold the rows and the answer of the fit_transform just made
FromThisFit ==
    /\ ucall'.op = "fit_transform" /\ ucall'.ret = "ok"
    /\ TrainingData' = <<FitInput(ucall'.arg).data>>
    /\ TrainingEmbeddings' = <<ucall'.out>>

\* the cells now hold the two arrays of the blob the load_model just made read
FromThisBlob ==
    /\ ucall'.op = "load_model" /\ ucall'.ret = "ok" /\ model_file # <<>>
    /\ TrainingData' = <<model_file[1].original_data>>
    /\ TrainingEmbeddings' = <<model_file[1].embeddings>>

\* C40: in every state the stored training vectors and training embeddings
\* are both absent or both present with the same number of rows, and every
\* call (fit_transform that succeeds or fails, load_model, save_model,
\* transform) either leaves the two as they were or replaces both, by the
\* result of one successful fit or by the two arrays of one loaded blob
C40_TrainingStatePaired ==
    /\ []Paired
    /\ [][\/ TrainingData' = TrainingData /\ TrainingEmbeddings' = TrainingEmbeddings
          \/ FromThisFit
          \/ FromThisBlob]_vars

\* a fit has failed on a pipeline that holds two training vectors and their
\* embeddings, with a model written to a file before
C40_Witness ==
    /\ ucall.op = "fit_transform" /\ ucall.ret \in {"EmbeddingFailed", "RaggedInput"}
    /\ Fitted /\ Len(TrainingData[1]) = 2 /\ Len(TrainingEmbeddings[1]) = 2
    /\ model_file # <<>>

====
